---- MODULE Spec2Model ----
(***************************************************************************)
(* Battery controller: the zero-grid real-time controller                  *)
(* (zero_grid_controller.py), the DP optimizer with its oscillation        *)
(* filter (optimizer.py) and the optimizer cycle / real-time tick of the   *)
(* OptimizationCoordinator (coordinator.py).                               *)
(*                                                                         *)
(* Units: power in W, energy and SoC in Wh, prices in integer price units  *)
(* per kWh, durations in minutes.  The source's kW / kWh floats are these  *)
(* integers divided by 1000.  sqrt(RTE) is the rational rte_n / rte_d, so  *)
(* RTE = rte_n^2 / rte_d^2 and every comparison of the source is made by   *)
(* cross-multiplication in integers.                                       *)
(***************************************************************************)
EXTENDS Integers, Sequences, FiniteSets, TLC

VARIABLES
    battery_config,   \* BatteryConfig of the session
    deadband_w,       \* ZeroGridControllerConfig.deadband_w
    _last_target_w,   \* ZeroGridController._last_target_w
    opt_input,        \* the arguments of the optimize_battery_schedule call under study
    ret,              \* the last call: its name, its arguments and what it returned
    has_power_sensors,     \* bool(_power_consumption_sensors or _power_production_sensors)
    _control_mode,         \* OptimizationCoordinator._control_mode
    data,                  \* DataUpdateCoordinator.data, the published data
    _last_result,          \* OptimizationCoordinator._last_result
    _effective_mode,       \* OptimizationCoordinator._effective_mode
    _effective_power,      \* OptimizationCoordinator._effective_power (W)
    _dp_schedule_w,        \* OptimizationCoordinator._dp_schedule_w
    _last_failure_reason,  \* OptimizationCoordinator._last_failure_reason
    _last_price,           \* OptimizationCoordinator._last_price
    price_state,           \* the state of the price sensor in the state machine of Home Assistant
    _optimization_enabled, \* OptimizationCoordinator._optimization_enabled
    _is_on,                \* BatteryOptimizationSwitch._is_on
    update_interval,       \* DataUpdateCoordinator.update_interval: "timedelta" or "None"
    forecast_coordinator_data, \* ForecastCoordinator.data: the published forecast lists
    steps_elapsed          \* optimizer time steps gone by since _last_result was computed

switchVars == <<_optimization_enabled, _is_on, update_interval>>

coordVars == <<has_power_sensors, _control_mode, data, _last_result, _effective_mode,
               _effective_power, _dp_schedule_w, _last_failure_reason, _last_price,
               price_state, steps_elapsed, switchVars, forecast_coordinator_data>>

vars == <<battery_config, deadband_w, _last_target_w, opt_input, ret, coordVars>>

Abs(x) == IF x < 0 THEN -x ELSE x
Min(a, b) == IF a < b THEN a ELSE b
Max(a, b) == IF a > b THEN a ELSE b

NoCall == [op |-> "none"]

(***************************************************************************)
(* battery_model.py                                                        *)
(***************************************************************************)
DEFAULT_PV_DC_EFFICIENCY_PCT == 97

\* BatteryConfig with the fields derived in __post_init__
BatteryConfig(capacity_wh, min_soc_percent, max_soc_percent, max_charge_w, max_discharge_w, rte_n, rte_d) ==
    [capacity_wh |-> capacity_wh,
     pv_dc_coupled |-> FALSE,
     pv_dc_eff_n |-> DEFAULT_PV_DC_EFFICIENCY_PCT,
     pv_dc_eff_d |-> 100,
     min_soc_percent |-> min_soc_percent,
     max_soc_percent |-> max_soc_percent,
     max_charge_w |-> max_charge_w,
     max_discharge_w |-> max_discharge_w,
     rte_n |-> rte_n,
     rte_d |-> rte_d,
     min_soc_wh |-> (capacity_wh * min_soc_percent) \div 100,
     max_soc_wh |-> (capacity_wh * max_soc_percent) \div 100]

\* numbers that are not whole: the fraction num / den in lowest terms, den > 0
RECURSIVE GCD(_, _)
GCD(a, b) == IF b = 0 THEN a ELSE GCD(b, a % b)
Frac(num, den) ==
    LET g == GCD(Abs(num), Abs(den))
        sign == IF den < 0 THEN -1 ELSE 1
    IN  [num |-> sign * (num \div g), den |-> Abs(den) \div g]
Whole(n) == [num |-> n, den |-> 1]
FracAdd(a, b) == Frac(a.num * b.den + b.num * a.den, a.den * b.den)
FracSub(a, b) == Frac(a.num * b.den - b.num * a.den, a.den * b.den)
FracMul(a, b) == Frac(a.num * b.num, a.den * b.den)
FracDiv(a, b) == Frac(a.num * b.den, a.den * b.num)
FracLess(a, b) == a.num * b.den < b.num * a.den
FracMin(a, b) == IF FracLess(b, a) THEN b ELSE a
FracMax(a, b) == IF FracLess(a, b) THEN b ELSE a

\* the outcome of a call: the value returned, or the exception raised
Returns(value) == [raised |-> "none", value |-> value]
Raises(exception) == [raised |-> exception, value |-> Whole(0)]

\* current_soc_kwh / capacity_kwh * 100.0
SocPercentOf(current_soc_wh, config) ==
    IF config.capacity_wh = 0 THEN Raises("ZeroDivisionError")
    ELSE Returns(Frac(current_soc_wh * 100, config.capacity_wh))

\* base_eff * c_rate_factor * soc_factor, where
\* c_rate_factor = 1 - 0.02 * max(0, c_rate - 0.5) / 0.5 = 1 - max(0, c_rate - 1/2) / 25
calculate_efficiency(power_w, soc_percent, config) ==
    IF config.capacity_wh = 0 THEN Raises("ZeroDivisionError")
    ELSE LET base_eff == Frac(config.rte_n, config.rte_d)
             c_rate == Frac(Abs(power_w), config.capacity_wh)
             c_rate_factor == FracSub(Whole(1),
                                      FracDiv(FracMax(Whole(0), FracSub(c_rate, Frac(1, 2))),
                                              Whole(25)))
             soc_factor == IF FracLess(soc_percent, Whole(10)) \/ FracLess(Whole(90), soc_percent)
                           THEN Frac(95, 100)
                           ELSE IF FracLess(soc_percent, Whole(20)) \/ FracLess(Whole(80), soc_percent)
                           THEN Frac(98, 100)
                           ELSE Whole(1)
         IN  Returns(FracMul(FracMul(base_eff, c_rate_factor), soc_factor))

\* the tuple (new_soc_kwh, actual_energy_kwh), in Wh; the duration in minutes
calculate_new_soc(current_soc_wh, power_w, duration_minutes, config) ==
    LET current_soc_percent == SocPercentOf(current_soc_wh, config)
        efficiency == calculate_efficiency(power_w, current_soc_percent.value, config)
        duration_hours == Frac(duration_minutes, 60)
    IN  IF current_soc_percent.raised # "none" THEN current_soc_percent
        ELSE IF power_w > 0
        THEN LET energy_stored == FracMul(FracMul(Whole(power_w), duration_hours), efficiency.value)
                 new_soc == FracMin(FracAdd(Whole(current_soc_wh), energy_stored),
                                    Whole(config.max_soc_wh))
             IN  Returns([new_soc |-> new_soc,
                          actual_energy |-> FracSub(new_soc, Whole(current_soc_wh))])
        ELSE IF power_w < 0
        THEN IF efficiency.value.num = 0 THEN Raises("ZeroDivisionError")
             ELSE LET energy_released == FracMul(Whole(Abs(power_w)), duration_hours)
                      energy_from_battery == FracDiv(energy_released, efficiency.value)
                      new_soc == FracMax(FracSub(Whole(current_soc_wh), energy_from_battery),
                                         Whole(config.min_soc_wh))
                  IN  Returns([new_soc |-> new_soc,
                               actual_energy |-> FracSub(Whole(current_soc_wh), new_soc)])
        ELSE Returns([new_soc |-> Whole(current_soc_wh), actual_energy |-> Whole(0)])

\* the maximum charge power in W
calculate_max_charge_power(current_soc_wh, duration_minutes, config) ==
    LET energy_headroom == config.max_soc_wh - current_soc_wh
        current_soc_percent == SocPercentOf(current_soc_wh, config)
        efficiency == calculate_efficiency(config.max_charge_w, current_soc_percent.value, config)
    IN  IF energy_headroom <= 0 \/ duration_minutes <= 0 THEN Returns(Whole(0))
        ELSE IF current_soc_percent.raised # "none" THEN current_soc_percent
        ELSE IF efficiency.value.num = 0 THEN Raises("ZeroDivisionError")
        ELSE Returns(FracMin(FracDiv(Whole(energy_headroom),
                                     FracMul(Frac(duration_minutes, 60), efficiency.value)),
                             Whole(config.max_charge_w)))

\* the maximum discharge power in W, as a positive value
calculate_max_discharge_power(current_soc_wh, duration_minutes, config) ==
    LET energy_available == current_soc_wh - config.min_soc_wh
        current_soc_percent == SocPercentOf(current_soc_wh, config)
        efficiency == calculate_efficiency(-config.max_discharge_w, current_soc_percent.value, config)
    IN  IF energy_available <= 0 \/ duration_minutes <= 0 THEN Returns(Whole(0))
        ELSE IF current_soc_percent.raised # "none" THEN current_soc_percent
        ELSE Returns(FracMin(FracDiv(FracMul(Whole(energy_available), efficiency.value),
                                     Frac(duration_minutes, 60)),
                             Whole(config.max_discharge_w)))

(***************************************************************************)
(* helpers.py                                                              *)
(***************************************************************************)
clamp(value, min_value, max_value) == Max(min_value, Min(max_value, value))

\* A price entry is a record: ok (float() of its value succeeds) and price.
\* _normalize_price_value over a list: the prices of the entries that parse
RECURSIVE NormalizedPrices(_)
NormalizedPrices(entries) ==
    IF Len(entries) = 0 THEN <<>>
    ELSE (IF Head(entries).ok THEN <<Head(entries).price>> ELSE <<>>)
         \o NormalizedPrices(Tail(entries))

\* an attribute of the price sensor that is a list, or <<>> when it is absent
ListAttribute(attribute) == IF attribute.some THEN attribute.v ELSE <<>>

\* entries[hour:]
FromHour(entries, hour) == SubSeq(entries, hour + 1, Len(entries))

\* extract_price_forecast_with_interval for a state without net_prices_today /
\* net_prices_tomorrow attributes; hour is dt_util.utcnow().hour
extract_price_forecast_with_interval(state, hour) ==
    LET forecast_prices == NormalizedPrices(ListAttribute(state.forecast_prices))
        generic_forecast == NormalizedPrices(ListAttribute(state.forecast))
        raw == NormalizedPrices(FromHour(ListAttribute(state.raw_today), hour))
               \o NormalizedPrices(ListAttribute(state.raw_tomorrow))
        combined == NormalizedPrices(ListAttribute(state.today) \o ListAttribute(state.tomorrow))
    IN  IF Len(forecast_prices) > 0 THEN [prices |-> forecast_prices, interval |-> 60]
        ELSE IF Len(generic_forecast) > 0 THEN [prices |-> generic_forecast, interval |-> 60]
        ELSE IF Len(raw) > 0 THEN [prices |-> raw, interval |-> 60]
        ELSE IF Len(combined) > 0 THEN [prices |-> combined, interval |-> 60]
        ELSE IF state.state.ok THEN [prices |-> <<state.state.price>>, interval |-> 60]
        ELSE [prices |-> <<>>, interval |-> 60]

\* resample_forecast returns the list it was given, not a copy, when the two
\* intervals are equal
ReturnsSameList(source_interval_minutes, target_interval_minutes) ==
    source_interval_minutes = target_interval_minutes

\* the mean of entries first..last of a list
RECURSIVE SumOf(_, _, _)
SumOf(list, first, last) ==
    IF first > last THEN 0 ELSE list[first] + SumOf(list, first + 1, last)

\* resample_forecast for intervals of 15, 30 and 60 minutes: a target step
\* inside one source step takes its value, a target step that spans several
\* source steps takes their mean (equal overlaps); an incomplete last target
\* step is dropped
resample_forecast(forecast, source_interval_minutes, target_interval_minutes) ==
    IF source_interval_minutes = target_interval_minutes THEN forecast
    ELSE IF Len(forecast) = 0 THEN <<>>
    ELSE LET target_steps == (Len(forecast) * source_interval_minutes) \div target_interval_minutes
         IN  IF source_interval_minutes > target_interval_minutes
             THEN [i \in 1..target_steps |->
                      forecast[((i - 1) * target_interval_minutes) \div source_interval_minutes + 1]]
             ELSE LET k == target_interval_minutes \div source_interval_minutes
                  IN  [i \in 1..target_steps |-> SumOf(forecast, (i - 1) * k + 1, i * k) \div k]

(***************************************************************************)
(* zero_grid_controller.py                                                 *)
(***************************************************************************)
\* mutant: the limits bite only strictly beyond the SoC window
_apply_soc_limits_strict(cfg, target_w, current_soc_wh) ==
    IF current_soc_wh < cfg.min_soc_wh /\ target_w < 0 THEN 0
    ELSE IF current_soc_wh > cfg.max_soc_wh /\ target_w > 0 THEN 0
    ELSE target_w

_apply_soc_limits(cfg, target_w, current_soc_wh) ==
    IF current_soc_wh <= cfg.min_soc_wh /\ target_w < 0 THEN 0
    ELSE IF current_soc_wh >= cfg.max_soc_wh /\ target_w > 0 THEN 0
    ELSE target_w

\* mutant: the integrator is not clamped to rated power
_calculate_zero_grid_unclamped(cfg, last_w, current_grid_w, current_soc_wh) ==
    _apply_soc_limits(cfg, last_w - current_grid_w, current_soc_wh)

_calculate_zero_grid(cfg, last_w, current_grid_w, current_soc_wh) ==
    _apply_soc_limits(cfg,
        clamp(last_w - current_grid_w, -cfg.max_discharge_w, cfg.max_charge_w),
        current_soc_wh)

\* mutant: idle absorbs the surplus that would be exported
_calculate_idle_absorbs(current_grid_w, current_soc_wh) ==
    IF current_grid_w < 0 THEN -current_grid_w ELSE 0

_calculate_idle(current_grid_w, current_soc_wh) == 0

_calculate_follow_schedule(cfg, dp_w, current_soc_wh) ==
    _apply_soc_limits(cfg,
        clamp(dp_w, -cfg.max_discharge_w, cfg.max_charge_w),
        current_soc_wh)

\* mutant: manual mode executes the DP schedule
calculate_battery_setpoint_manual_schedule(cfg, last_w, current_grid_w, current_soc_wh, dp_w, mode) ==
    IF mode = "zero_grid" THEN _calculate_zero_grid(cfg, last_w, current_grid_w, current_soc_wh)
    ELSE IF mode = "idle" THEN _calculate_idle(current_grid_w, current_soc_wh)
    ELSE _calculate_follow_schedule(cfg, dp_w, current_soc_wh)

calculate_battery_setpoint(cfg, last_w, current_grid_w, current_soc_wh, dp_w, mode) ==
    IF mode = "zero_grid" THEN _calculate_zero_grid(cfg, last_w, current_grid_w, current_soc_wh)
    ELSE IF mode = "idle" THEN _calculate_idle(current_grid_w, current_soc_wh)
    ELSE IF mode = "follow_schedule" THEN _calculate_follow_schedule(cfg, dp_w, current_soc_wh)
    ELSE 0

\* mutant: a difference of exactly deadband_w is still rejected
apply_deadband_inclusive(target_w, last_w, deadband) ==
    IF Abs(target_w - last_w) <= deadband THEN last_w ELSE target_w

apply_deadband(target_w, last_w, deadband) ==
    IF Abs(target_w - last_w) < deadband THEN last_w ELSE target_w

\* mutant: the setpoint is computed from the grid reading alone, without the
\* previous target as the integrator base
get_control_action_direct(cfg, last_w, deadband, current_grid_w, current_soc_wh, dp_w, mode) ==
    LET raw_target_w == calculate_battery_setpoint(cfg, 0, current_grid_w, current_soc_wh, dp_w, mode)
        final_target_w == apply_deadband(raw_target_w, last_w, deadband)
    IN  [target_power_w |-> final_target_w,
         raw_target_w |-> raw_target_w,
         current_grid_w |-> current_grid_w,
         dp_schedule_w |-> dp_w,
         mode |-> mode,
         action_mode |-> IF final_target_w > 50 THEN "charging"
                         ELSE IF final_target_w < -50 THEN "discharging"
                         ELSE "idle",
         soc_wh |-> current_soc_wh]

\* the dict returned by get_control_action; target_power_w is also the new
\* _last_target_w
get_control_action(cfg, last_w, deadband, current_grid_w, current_soc_wh, dp_w, mode) ==
    LET raw_target_w == calculate_battery_setpoint(cfg, last_w, current_grid_w, current_soc_wh, dp_w, mode)
        final_target_w == apply_deadband(raw_target_w, last_w, deadband)
    IN  [target_power_w |-> final_target_w,
         raw_target_w |-> raw_target_w,
         current_grid_w |-> current_grid_w,
         dp_schedule_w |-> dp_w,
         mode |-> mode,
         action_mode |-> IF final_target_w > 50 THEN "charging"
                         ELSE IF final_target_w < -50 THEN "discharging"
                         ELSE "idle",
         soc_wh |-> current_soc_wh]

(***************************************************************************)
(* optimizer.py                                                            *)
(*                                                                         *)
(* Costs are integers: the cost in EUR times CostScale, where              *)
(* CostScale = 4000 * PowerScale(cfg) price units.  The optimizer time     *)
(* step is a multiple of 15 minutes, so action_w * time_step_hours is a    *)
(* whole number of Wh for the 100 W actions.                               *)
(***************************************************************************)
SOC_RESOLUTION_WH == 25
power_step_w == 100
INVERTER_EFF_NUM == 24   \* the 0.96 of calculate_step_cost is 24 / 25
INVERTER_EFF_DEN == 25
PV_SURPLUS_THRESHOLD_W == 50
\* mutant: the lookahead reaches one step further
LOOKAHEAD_STEPS_nine == 8 + 1

LOOKAHEAD_STEPS == 8

None == [some |-> FALSE, v |-> <<>>]
Some(list) == [some |-> TRUE, v |-> list]

\* dc_eff of calculate_step_cost as the fraction dc_n / dc_d
dc_eff_n(cfg) == IF cfg.pv_dc_coupled THEN cfg.pv_dc_eff_n ELSE cfg.rte_n
dc_eff_d(cfg) == IF cfg.pv_dc_coupled THEN cfg.pv_dc_eff_d ELSE cfg.rte_d

\* every power of calculate_step_cost times PowerScale is an integer
PowerScale(cfg) == INVERTER_EFF_DEN * cfg.rte_n * cfg.rte_d * dc_eff_n(cfg) * dc_eff_d(cfg)

\* time_step_hours in quarters of an hour
Quarters(time_step_minutes) == time_step_minutes \div 15

\* action_w * time_step_hours, in Wh
EnergyWh(power_w, time_step_minutes) == (power_w * time_step_minutes) \div 60

calculate_step_cost(cfg, time_step_minutes, action_w, grid_price, feed_in_price, pv_production_w, consumption_w, degradation_cost_per_kwh, pv_dc_production_w) ==
    LET K == PowerScale(cfg)
        dn == dc_eff_n(cfg)
        dd == dc_eff_d(cfg)
        dc_charge == IF action_w > 0
                     THEN Min(action_w * K, pv_dc_production_w * dn * (K \div dd))
                     ELSE 0
        ac_charge == IF action_w > 0 THEN action_w * K - dc_charge ELSE 0
        dc_pv_used == (dc_charge \div dn) * dd
        dc_pv_excess == IF action_w > 0
                        THEN Max(0, pv_dc_production_w * K - dc_pv_used)
                        ELSE pv_dc_production_w * K
        grid_to_battery == IF action_w > 0
                           THEN (IF ac_charge > 0 THEN (ac_charge \div cfg.rte_n) * cfg.rte_d ELSE 0)
                           ELSE IF action_w < 0
                           THEN -(((Abs(action_w) * K) \div cfg.rte_d) * cfg.rte_n)
                           ELSE 0
        dc_pv_to_ac == IF dc_pv_excess > 0
                       THEN (dc_pv_excess \div INVERTER_EFF_DEN) * INVERTER_EFF_NUM
                       ELSE 0
        total_ac_pv == pv_production_w * K + dc_pv_to_ac
        net_grid == consumption_w * K - total_ac_pv + grid_to_battery
        energy == Abs(net_grid) * Quarters(time_step_minutes)
        grid_cost == IF net_grid > 0 THEN energy * grid_price ELSE -(energy * feed_in_price)
        degradation_cost == Abs(action_w) * K * Quarters(time_step_minutes) * degradation_cost_per_kwh
    IN  grid_cost + degradation_cost

\* range(min_soc_wh, max_soc_wh + SOC_RESOLUTION_WH, SOC_RESOLUTION_WH):
\* the number of grid states, and the state at a 0-based index
n_soc_states(cfg) ==
    IF cfg.max_soc_wh + SOC_RESOLUTION_WH <= cfg.min_soc_wh THEN 0
    ELSE (cfg.max_soc_wh - cfg.min_soc_wh + 2 * SOC_RESOLUTION_WH - 1) \div SOC_RESOLUTION_WH

soc_states(cfg, s_idx) == cfg.min_soc_wh + s_idx * SOC_RESOLUTION_WH

\* round() of the source never meets a tie: the distance is a whole number of
\* Wh and the step is odd
_find_nearest_soc_idx(cfg, soc_wh) ==
    IF n_soc_states(cfg) <= 1 THEN 0
    ELSE Max(0, Min((2 * (soc_wh - cfg.min_soc_wh) + SOC_RESOLUTION_WH) \div (2 * SOC_RESOLUTION_WH),
                    n_soc_states(cfg) - 1))

\* mutant: the number of steps is rounded up
charge_steps_ceil(cfg) == (cfg.max_charge_w + power_step_w - 1) \div power_step_w

charge_steps(cfg) == cfg.max_charge_w \div power_step_w
discharge_steps(cfg) == cfg.max_discharge_w \div power_step_w

\* discharge_actions + charge_actions, an ascending list
actions(cfg) == {i * power_step_w : i \in (-discharge_steps(cfg))..charge_steps(cfg)}

\* forecast[t] for a 0-based t, with the default the source uses past the end
At(forecast, t, default) == IF t < Len(forecast) THEN forecast[t + 1] ELSE default

n_steps(p) == Min(Len(p.price_forecast), Min(Len(p.pv_forecast), Len(p.consumption_forecast)))

\* feed_in_forecast after "if feed_in_forecast is None"
feed_in_of(p) == IF p.feed_in_forecast.some THEN p.feed_in_forecast.v ELSE p.price_forecast

\* pv_dc_forecast after "if pv_dc_forecast is None"
pv_dc_of(p) == IF p.pv_dc_forecast.some THEN p.pv_dc_forecast.v ELSE [i \in 1..Len(p.pv_forecast) |-> 0]

terminal_price(p) == IF Len(feed_in_of(p)) > 0 THEN feed_in_of(p)[Len(feed_in_of(p))] ELSE 0

\* mutant: the energy left in the battery counts as a cost
TerminalValue_penalty(p, s_idx) ==
    (soc_states(p.cfg, s_idx) - p.cfg.min_soc_wh) * 4 * PowerScale(p.cfg) * terminal_price(p)

\* V[n_steps][s_idx]
TerminalValue(p, s_idx) ==
    -((soc_states(p.cfg, s_idx) - p.cfg.min_soc_wh) * 4 * PowerScale(p.cfg) * terminal_price(p))

\* the SoC an action leads to, and whether the backward pass skips the action
NewSocWh(p, soc_wh, action_w) == soc_wh + EnergyWh(action_w, p.time_step_minutes)

Skipped(p, soc_wh, action_w) ==
    \/ action_w > 0 /\ NewSocWh(p, soc_wh, action_w) > p.cfg.max_soc_wh
    \/ action_w < 0 /\ NewSocWh(p, soc_wh, action_w) < p.cfg.min_soc_wh

\* mutant: the degradation cost is credited instead of charged
StepCostAt_credits_degradation(p, t, action_w) ==
    LET grid_price == p.price_forecast[t + 1]
    IN  calculate_step_cost(p.cfg, p.time_step_minutes, action_w, grid_price,
                            At(feed_in_of(p), t, grid_price),
                            At(p.pv_forecast, t, 0),
                            At(p.consumption_forecast, t, 0),
                            -p.degradation_cost_per_kwh,
                            At(pv_dc_of(p), t, 0))

StepCostAt(p, t, action_w) ==
    LET grid_price == p.price_forecast[t + 1]
    IN  calculate_step_cost(p.cfg, p.time_step_minutes, action_w, grid_price,
                            At(feed_in_of(p), t, grid_price),
                            At(p.pv_forecast, t, 0),
                            At(p.consumption_forecast, t, 0),
                            p.degradation_cost_per_kwh,
                            At(pv_dc_of(p), t, 0))

\* the inner loop of the backward induction over actions[k ..] for one cell:
\* the first action, in list order, of least step_cost + V[t + 1][new_soc_idx]
\* (Vnext[i + 1] is V[t + 1][i]); best is the best so far, best.inf the INF of the source
RECURSIVE BestAction(_, _, _, _, _, _)
BestAction(p, t, soc_wh, Vnext, action_w, best) ==
    IF action_w > charge_steps(p.cfg) * power_step_w THEN best
    ELSE IF Skipped(p, soc_wh, action_w)
    THEN BestAction(p, t, soc_wh, Vnext, action_w + power_step_w, best)
    ELSE LET total_cost == StepCostAt(p, t, action_w)
                           + Vnext[_find_nearest_soc_idx(p.cfg, NewSocWh(p, soc_wh, action_w)) + 1]
         IN  BestAction(p, t, soc_wh, Vnext, action_w + power_step_w,
                        IF best.inf \/ total_cost < best.cost
                        THEN [inf |-> FALSE, cost |-> total_cost, action |-> action_w]
                        ELSE best)

\* the loop over the SoC states s_idx .. n_soc_states - 1 of one time step
RECURSIVE BackwardRow(_, _, _, _)
BackwardRow(p, t, Vnext, s_idx) ==
    IF s_idx >= n_soc_states(p.cfg) THEN <<>>
    ELSE <<BestAction(p, t, soc_states(p.cfg, s_idx), Vnext,
                      -(discharge_steps(p.cfg) * power_step_w),
                      [inf |-> TRUE, cost |-> 0, action |-> 0])>>
         \o BackwardRow(p, t, Vnext, s_idx + 1)

RECURSIVE TerminalRow(_, _)
TerminalRow(p, s_idx) ==
    IF s_idx >= n_soc_states(p.cfg) THEN <<>>
    ELSE <<TerminalValue(p, s_idx)>> \o TerminalRow(p, s_idx + 1)

RECURSIVE Column(_, _, _)
Column(row, field, i) ==
    IF i > Len(row) THEN <<>>
    ELSE <<IF field = "cost" THEN row[i].cost ELSE row[i].action>> \o Column(row, field, i + 1)

\* one time step of the backward induction, given V[t + 1 ..] and policy[t + 1 ..]
BackwardStep(p, t, nxt) ==
    LET row == BackwardRow(p, t, nxt.V, 0)
    IN  [V |-> Column(row, "cost", 1),
         policy |-> <<Column(row, "action", 1)>> \o nxt.policy]

\* V[t] and policy[t .. n_steps - 1]; V[s_idx + 1] is the source's V[t][s_idx]
RECURSIVE Backward(_, _)
Backward(p, t) ==
    IF t = n_steps(p)
    THEN [V |-> TerminalRow(p, 0), policy |-> <<>>]
    ELSE BackwardStep(p, t, Backward(p, t + 1))

\* shadow_price_eur_kwh as the fraction num / den of price units per kWh;
\* V0[s_idx + 1] is the source's V[0][s_idx]
\* (den = CostScale * step_kwh, doubled for the central difference)
ShadowPrice(p, V0, current_soc_idx) ==
    LET n == n_soc_states(p.cfg)
        unit == 100 * PowerScale(p.cfg)
    IN  IF n >= 3 /\ 0 < current_soc_idx /\ current_soc_idx < n - 1
        THEN [num |-> V0[current_soc_idx] - V0[current_soc_idx + 2], den |-> 2 * unit]
        ELSE IF n >= 2
        THEN (IF current_soc_idx = 0
              THEN [num |-> V0[1] - V0[2], den |-> unit]
              ELSE [num |-> V0[n - 1] - V0[n], den |-> unit])
        ELSE [num |-> 0, den |-> 1]

ModeOf(power_w) == IF power_w > 0 THEN "charging" ELSE IF power_w < 0 THEN "discharging" ELSE "idle"

\* forward pass from step t at the SoC current_soc: the actions of steps
\* t .. n_steps - 1 and the SoC after each of them
RECURSIVE Forward(_, _, _, _)
Forward(p, policy, t, current_soc) ==
    IF t = n_steps(p) THEN [power |-> <<>>, soc |-> <<>>]
    ELSE LET action_w == policy[t + 1][_find_nearest_soc_idx(p.cfg, current_soc) + 1]
             moved == current_soc + EnergyWh(action_w, p.time_step_minutes)
             new_soc == IF action_w > 0 THEN Min(moved, p.cfg.max_soc_wh)
                        ELSE IF action_w < 0 THEN Max(moved, p.cfg.min_soc_wh)
                        ELSE current_soc
             rest == Forward(p, policy, t + 1, new_soc)
         IN  [power |-> <<action_w>> \o rest.power, soc |-> <<new_soc>> \o rest.soc]

\* get_charge_cost of _filter_oscillations, for a 0-based timestep
get_charge_cost(price_forecast, pv_forecast, consumption_forecast, feed_in_forecast, timestep) ==
    IF /\ Len(pv_forecast) > 0 /\ Len(consumption_forecast) > 0 /\ Len(feed_in_forecast) > 0
       /\ pv_forecast[timestep + 1] - consumption_forecast[timestep + 1] > PV_SURPLUS_THRESHOLD_W
    THEN feed_in_forecast[timestep + 1]
    ELSE price_forecast[timestep + 1]

\* mutant: min_price_spread is left out of the threshold
Unprofitable_no_spread(cfg, discharge_price, charge_cost, degradation_cost_per_kwh, min_price_spread) ==
    discharge_price * cfg.rte_n * cfg.rte_n - charge_cost * cfg.rte_d * cfg.rte_d
        < (2 * degradation_cost_per_kwh) * cfg.rte_d * cfg.rte_n

\* effective_spread < min_arbitrage_spread, both sides times rte_n^2
Unprofitable(cfg, discharge_price, charge_cost, degradation_cost_per_kwh, min_price_spread) ==
    discharge_price * cfg.rte_n * cfg.rte_n - charge_cost * cfg.rte_d * cfg.rte_d
        < (2 * degradation_cost_per_kwh + min_price_spread) * cfg.rte_d * cfg.rte_n

\* the lookahead of step i over filtered_mode: TRUE when step i is replaced by idle
ZeroStep(p, f, filtered_mode, i) ==
    LET last == Min(i + LOOKAHEAD_STEPS, Len(filtered_mode)) - 1
    IN  \/ /\ filtered_mode[i + 1] = "charging"
           /\ \E j \in (i + 1)..last :
                 /\ filtered_mode[j + 1] = "discharging"
                 /\ Unprofitable(p.cfg, f.price[j + 1],
                                 get_charge_cost(f.price, f.pv, f.consumption, f.feed_in, i),
                                 p.degradation_cost_per_kwh, p.min_price_spread)
        \/ /\ filtered_mode[i + 1] = "discharging"
           /\ \E j \in (i + 1)..last :
                 /\ filtered_mode[j + 1] = "charging"
                 /\ Unprofitable(p.cfg, f.price[i + 1],
                                 get_charge_cost(f.price, f.pv, f.consumption, f.feed_in, j),
                                 p.degradation_cost_per_kwh, p.min_price_spread)

\* mutant: a filtered step gets power 0 but keeps its mode label
RECURSIVE FilterLoop_keeps_mode(_, _, _, _, _)
FilterLoop_keeps_mode(p, f, filtered_power, filtered_mode, i) ==
    IF i >= Len(filtered_mode) - 1 THEN [power |-> filtered_power, mode |-> filtered_mode]
    ELSE IF ZeroStep(p, f, filtered_mode, i)
    THEN FilterLoop_keeps_mode(p, f, [filtered_power EXCEPT ![i + 1] = 0], filtered_mode, i + 1)
    ELSE FilterLoop_keeps_mode(p, f, filtered_power, filtered_mode, i + 1)

\* the while loop of _filter_oscillations from index i on
RECURSIVE FilterLoop(_, _, _, _, _)
FilterLoop(p, f, filtered_power, filtered_mode, i) ==
    IF i >= Len(filtered_mode) - 1 THEN [power |-> filtered_power, mode |-> filtered_mode]
    ELSE IF ZeroStep(p, f, filtered_mode, i)
    THEN FilterLoop(p, f, [filtered_power EXCEPT ![i + 1] = 0],
                    [filtered_mode EXCEPT ![i + 1] = "idle"], i + 1)
    ELSE FilterLoop(p, f, filtered_power, filtered_mode, i + 1)

\* mutant: the recomputed trajectory is not clamped to the SoC window
RECURSIVE RecalcSoc_unclamped(_, _, _, _)
RecalcSoc_unclamped(p, filtered_power, t, current_soc) ==
    IF t > Len(filtered_power) THEN <<>>
    ELSE LET new_soc == current_soc + EnergyWh(filtered_power[t], p.time_step_minutes)
         IN  <<new_soc>> \o RecalcSoc_unclamped(p, filtered_power, t + 1, new_soc)

\* "Recalculate SoC schedule after filtering", from step t on
RECURSIVE RecalcSoc(_, _, _, _)
RecalcSoc(p, filtered_power, t, current_soc) ==
    IF t > Len(filtered_power) THEN <<>>
    ELSE LET power_w == filtered_power[t]
             moved == current_soc + EnergyWh(power_w, p.time_step_minutes)
             new_soc == IF power_w > 0 THEN Min(moved, p.cfg.max_soc_wh)
                        ELSE IF power_w < 0 THEN Max(moved, p.cfg.min_soc_wh)
                        ELSE current_soc
         IN  <<new_soc>> \o RecalcSoc(p, filtered_power, t + 1, new_soc)

_filter_oscillations(p, power_schedule, mode_schedule, soc_schedule) ==
    IF Len(power_schedule) = 0
    THEN [power |-> power_schedule, mode |-> mode_schedule, soc |-> soc_schedule]
    ELSE LET n == n_steps(p)
             f == [price |-> SubSeq(p.price_forecast, 1, n),
                   pv |-> SubSeq(p.pv_forecast, 1, n),
                   consumption |-> SubSeq(p.consumption_forecast, 1, n),
                   feed_in |-> IF Len(feed_in_of(p)) > 0
                               THEN SubSeq(feed_in_of(p), 1, Min(n, Len(feed_in_of(p))))
                               ELSE SubSeq(p.price_forecast, 1, n)]
             filtered == FilterLoop(p, f, power_schedule, mode_schedule, 0)
         IN  [power |-> filtered.power,
              mode |-> filtered.mode,
              soc |-> <<soc_schedule[1]>> \o RecalcSoc(p, filtered.power, 1, soc_schedule[1])]

\* "Calculate baseline cost (no battery action)", steps t .. n_steps - 1
RECURSIVE BaselineCost(_, _)
BaselineCost(p, t) ==
    IF t = n_steps(p) THEN 0
    ELSE LET K == PowerScale(p.cfg)
             grid_price == p.price_forecast[t + 1]
             feed_in_price == At(feed_in_of(p), t, grid_price)
             pv_dc_w == At(pv_dc_of(p), t, 0)
             dc_pv_to_ac == IF pv_dc_w > 0 THEN ((pv_dc_w * K) \div INVERTER_EFF_DEN) * INVERTER_EFF_NUM ELSE 0
             net_grid == At(p.consumption_forecast, t, 0) * K - (At(p.pv_forecast, t, 0) * K + dc_pv_to_ac)
             energy == Abs(net_grid) * Quarters(p.time_step_minutes)
         IN  (IF net_grid > 0 THEN energy * grid_price ELSE -(energy * feed_in_price))
             + BaselineCost(p, t + 1)

\* mutant: the empty result forgets the current SoC
_empty_result_zero_soc(current_soc_wh) ==
    [power_schedule |-> <<>>,
     mode_schedule |-> <<>>,
     soc_schedule |-> <<0>>,
     total_cost |-> 0,
     baseline_cost |-> 0,
     savings |-> 0,
     optimal_power |-> 0,
     optimal_mode |-> "idle",
     shadow_price |-> [num |-> 0, den |-> 1]]

_empty_result(current_soc_wh) ==
    [power_schedule |-> <<>>,
     mode_schedule |-> <<>>,
     soc_schedule |-> <<current_soc_wh>>,
     total_cost |-> 0,
     baseline_cost |-> 0,
     savings |-> 0,
     optimal_power |-> 0,
     optimal_mode |-> "idle",
     shadow_price |-> [num |-> 0, den |-> 1]]

optimize_battery_schedule(p) ==
    IF n_steps(p) = 0 THEN _empty_result(p.current_soc_wh)
    ELSE LET dp == Backward(p, 0)
             current_soc_idx == _find_nearest_soc_idx(p.cfg, p.current_soc_wh)
             fwd == Forward(p, dp.policy, 0, soc_states(p.cfg, current_soc_idx))
             filtered == _filter_oscillations(p, fwd.power,
                                              [t \in 1..Len(fwd.power) |-> ModeOf(fwd.power[t])],
                                              <<p.current_soc_wh>> \o fwd.soc)
             baseline_cost == BaselineCost(p, 0)
         IN  [power_schedule |-> filtered.power,
              mode_schedule |-> filtered.mode,
              soc_schedule |-> filtered.soc,
              total_cost |-> dp.V[current_soc_idx + 1],
              baseline_cost |-> baseline_cost,
              savings |-> baseline_cost - dp.V[current_soc_idx + 1],
              optimal_power |-> filtered.power[1],
              optimal_mode |-> filtered.mode[1],
              shadow_price |-> ShadowPrice(p, dp.V, current_soc_idx)]

Const(n, v) == [i \in 1..n |-> v]

\* the arguments of an optimize_battery_schedule call
OptInput(cfg, soc, price, feed_in, pv, consumption, ts, deg, spread) ==
    [cfg |-> cfg,
     current_soc_wh |-> soc,
     price_forecast |-> price,
     feed_in_forecast |-> feed_in,
     pv_forecast |-> pv,
     consumption_forecast |-> consumption,
     time_step_minutes |-> ts,
     degradation_cost_per_kwh |-> deg,
     min_price_spread |-> spread,
     pv_dc_forecast |-> None]

(***************************************************************************)
(* OptimizationCoordinator (coordinator.py)                                *)
(*                                                                         *)
(* A sensor is a record: available (its state is neither unknown nor       *)
(* unavailable) and state, its reading.  The SoC sensor reads percent, the *)
(* power sensors read W (consumption minus production).  The battery power *)
(* sensor is not configured, so BatteryState.power_kw is 0.  Prices come   *)
(* at the optimizer's time step, so resample_forecast changes nothing.     *)
(***************************************************************************)
Unavailable == [available |-> FALSE, state |-> 0]
Reading(v) == [available |-> TRUE, state |-> v]

NoReason == "none"

\* the state of the price sensor as a state-change event carries it: no state
\* (old_state or new_state is None), unknown / unavailable, or a number
NoState == [kind |-> "none", price |-> 0]
UnavailableState == [kind |-> "unavailable", price |-> 0]
NumericState(price) == [kind |-> "numeric", price |-> price]
DEFAULT_SOC_PERCENT == 50
DEFAULT_TIME_STEP_MINUTES == 15
DEFAULT_CONSUMPTION_W == 500

\* BatteryState; d is the published data
get_current_battery_state(cfg, d, soc_sensor) ==
    LET smarter_soc_default == IF d # None THEN d.battery_state.soc_percent ELSE DEFAULT_SOC_PERCENT
        soc_percent == IF soc_sensor.available THEN soc_sensor.state ELSE smarter_soc_default
    IN  [soc_wh |-> (soc_percent * cfg.capacity_wh) \div 100,
         soc_percent |-> soc_percent,
         power_w |-> 0,
         mode |-> "idle"]

\* None without power sensors; a sensor that is unknown or unavailable is
\* skipped in the sums, which start at 0
_get_realtime_grid_w(has_sensors, grid_sensor) ==
    IF ~has_sensors THEN None
    ELSE Some(IF grid_sensor.available THEN grid_sensor.state ELSE 0)

_resolve_controller_mode(effective_mode, current_grid_w, has_sensors, deadband, control_mode) ==
    IF effective_mode = "zero_grid" THEN "zero_grid"
    ELSE IF effective_mode = "idle" /\ current_grid_w < deadband /\ has_sensors THEN "zero_grid"
    ELSE IF effective_mode = "idle" THEN "idle"
    ELSE IF effective_mode = "manual" THEN "manual"
    ELSE IF effective_mode \in {"charging", "discharging"} THEN "follow_schedule"
    ELSE control_mode

\* The price forecast of a cycle.  price_sensor is "forecast" (available, with
\* forecast attributes), "numeric" (available, a number, no forecast), "text"
\* (available, not a number, no forecast) or "unavailable"; prices is what the
\* source that ends up being used delivers (with model data, the horizon
\* extension is part of it).
PriceForecast(price_sensor, model_has_data, prices) ==
    LET sensor_ok == price_sensor # "unavailable"
        price_forecast == IF price_sensor = "forecast" THEN prices ELSE <<>>
    IN  IF price_forecast # <<>>
        THEN [ok |-> TRUE, forecast |-> price_forecast,
              source |-> IF model_has_data THEN "live+historical_model" ELSE "live"]
        ELSE IF model_has_data
        THEN [ok |-> TRUE, forecast |-> prices, source |-> "historical_model"]
        ELSE IF sensor_ok
        THEN IF price_sensor = "numeric"
             THEN [ok |-> TRUE, forecast |-> <<prices[1]>>, source |-> "current_only"]
             ELSE [ok |-> FALSE, reason |-> "Cannot extract price data"]
        ELSE [ok |-> FALSE, reason |-> "Price sensor not available"]

\* "Pad shorter forecasts to match price horizon"
RECURSIVE Pad(_, _, _)
Pad(list, n, fill) ==
    IF Len(list) >= n THEN list
    ELSE Pad(Append(list, IF fill = "last" THEN (IF list # <<>> THEN list[Len(list)] ELSE DEFAULT_CONSUMPTION_W)
                          ELSE 0), n, fill)

\* "Get feed-in price forecast": the forecast of the feed-in sensor, or the
\* fixed price over the length of the price forecast when the sensor is not
\* configured or not available
FeedInForecast(feed_in_sensor, options, price_forecast) ==
    IF feed_in_sensor.available THEN feed_in_sensor.forecast
    ELSE Const(Len(price_forecast), options.fixed_feed_in_price)

\* resampled_feed_in after the padding: None for an empty forecast
ResampledFeedIn(feed_in_forecast, n) ==
    IF feed_in_forecast = <<>> THEN None ELSE Some(Pad(feed_in_forecast, n, "last"))

\* mutant: the arbitration always takes the fixed feed-in price
CurrentFeedIn_fixed(resampled_feed_in, options) == options.fixed_feed_in_price

\* current_feed_in of the hybrid arbitration
CurrentFeedIn(resampled_feed_in, options) ==
    IF resampled_feed_in.some /\ resampled_feed_in.v # <<>>
    THEN resampled_feed_in.v[1] ELSE options.fixed_feed_in_price

\* "Get DC-coupled PV forecast if available", after the padding
PvDcForecast(forecast_data, n) ==
    IF /\ forecast_data.pv_dc_coupled
       /\ \E i \in 1..Len(forecast_data.pv_dc_forecast) : forecast_data.pv_dc_forecast[i] > 0
    THEN Some(Pad(forecast_data.pv_dc_forecast, n, "zero"))
    ELSE None

\* the arguments of the optimize_battery_schedule call of a cycle
CycleInput(cfg, options, soc_wh, prices, feed_in_sensor, forecast_data) ==
    [OptInput(cfg, soc_wh, prices,
               ResampledFeedIn(FeedInForecast(feed_in_sensor, options, prices), Len(prices)),
               Pad(forecast_data.pv_forecast, Len(prices), "zero"),
               Pad(forecast_data.consumption_forecast, Len(prices), "last"),
               DEFAULT_TIME_STEP_MINUTES, options.degradation_cost_per_kwh, options.min_price_spread)
        EXCEPT !.pv_dc_forecast = PvDcForecast(forecast_data, Len(prices))]

\* mutant: hybrid follows every charging or discharging DP step
EffectiveMode_follows_dp(cfg, control_mode, result, current_grid, current_feed_in) ==
    IF control_mode = "zero_grid" THEN [mode |-> "zero_grid", power |-> 0]
    ELSE IF control_mode = "manual" THEN [mode |-> "manual", power |-> 0]
    ELSE IF control_mode = "hybrid" /\ result.optimal_mode = "idle"
    THEN [mode |-> "zero_grid", power |-> 0]
    ELSE [mode |-> result.optimal_mode, power |-> result.optimal_power]

\* "Determine effective mode/power based on control mode"
EffectiveMode(cfg, control_mode, result, current_grid, current_feed_in) ==
    IF control_mode = "zero_grid" THEN [mode |-> "zero_grid", power |-> 0]
    ELSE IF control_mode = "manual" THEN [mode |-> "manual", power |-> 0]
    ELSE IF control_mode = "hybrid" THEN
        IF result.optimal_mode = "idle" THEN
            LET has_upcoming_discharge ==
                    \E t \in 2..Len(result.mode_schedule) : result.mode_schedule[t] = "discharging"
            IN  IF has_upcoming_discharge /\ current_grid >= 0
                THEN [mode |-> "idle", power |-> 0]
                ELSE [mode |-> "zero_grid", power |-> 0]
        ELSE IF result.optimal_mode = "discharging" THEN
            \* current_feed_in * sqrt_rte >= shadow_price
            IF current_feed_in * cfg.rte_n * result.shadow_price.den
                    >= result.shadow_price.num * cfg.rte_d
            THEN [mode |-> "discharging", power |-> result.optimal_power]
            ELSE [mode |-> "zero_grid", power |-> 0]
        ELSE IF result.optimal_mode = "charging" /\ current_grid < 0 THEN
            IF current_feed_in < 0
            THEN [mode |-> result.optimal_mode, power |-> result.optimal_power]
            ELSE [mode |-> "zero_grid", power |-> 0]
        ELSE [mode |-> result.optimal_mode, power |-> result.optimal_power]
    ELSE [mode |-> result.optimal_mode, power |-> result.optimal_power]

\* "Battery-controlled zero_grid: if no power sensors but mode is zero_grid"
OverrideWithoutSensors(control_action, has_sensors, effective_mode) ==
    IF ~has_sensors /\ effective_mode = "zero_grid"
    THEN [control_action EXCEPT !.target_power_w = 0, !.action_mode = "zero_grid"]
    ELSE control_action

(***************************************************************************)
(* Bounded inputs                                                          *)
(***************************************************************************)
MaxSteps == 3
MaxElapsed == 1

\* battery configurations: capacity (Wh), SoC window (%), rated charge and
\* discharge power (W, the second not a multiple of the 100 W action
\* resolution), sqrt(RTE) = rte_n / rte_d
Configs ==
    {BatteryConfig(200, 0, 50, 200, 200, 4, 5),
     BatteryConfig(200, 25, 75, 150, 250, 1, 1)}

DeadbandValues == {50, 60}
GridValues == {-300, -50, -20, 50, 300}
DpValues == {-300, 0, 100}
ControllerModes == {"zero_grid", "idle", "follow_schedule", "manual", "hybrid"}
SocValues(cfg) == {cfg.min_soc_wh - 25, cfg.min_soc_wh, cfg.min_soc_wh + 50, cfg.max_soc_wh, cfg.max_soc_wh + 25}

PriceValues == {1, 4, 9}
PvValues == {0, 300}
ConsumptionValues == {100}
FeedInValues == {2}
DegradationValues == {0, 1}
SpreadValues == {0, 3}
TimeStepValues == {15}
OptSocValues(cfg) == {cfg.min_soc_wh, cfg.min_soc_wh + 60, cfg.max_soc_wh}

\* a nine-step horizon: one cheap step, then prices that make the DP hold the
\* charge until a late expensive step, at distance 7 or 8 from the first
LongPrices ==
    {<<1, 3, 3, 3, 3, 3, 3, 9, 3>>,
     <<1, 3, 3, 3, 3, 3, 3, 3, 9>>,
     <<9, 3, 3, 3, 3, 3, 3, 1, 3>>,
     <<9, 3, 3, 3, 3, 3, 3, 3, 1>>}

\* PV forecasts: none, a surplus in one step, a surplus in every step
PvForecasts(n) ==
    {Const(n, v) : v \in PvValues}
        \cup {[i \in 1..n |-> IF i = k THEN 300 ELSE 0] : k \in 1..n}

ShortInputs(cfg) ==
    UNION {
        {OptInput(cfg, soc, price, feed_in, pv, consumption, ts, deg, spread) :
            soc \in OptSocValues(cfg),
            price \in [1..n -> PriceValues],
            feed_in \in {None} \cup {Some(Const(n, v)) : v \in FeedInValues},
            pv \in PvForecasts(n),
            consumption \in [1..n -> ConsumptionValues],
            ts \in TimeStepValues,
            deg \in DegradationValues,
            spread \in SpreadValues}
        : n \in 1..MaxSteps}

LongInputs(cfg) ==
    {OptInput(cfg, soc, price, None, Const(Len(price), 0), Const(Len(price), 100), 15, 0, spread) :
        soc \in {cfg.min_soc_wh, cfg.max_soc_wh},
        price \in LongPrices,
        spread \in {0, 3, 7, 9}}

\* two steps with a negative feed-in price in both or in the first only, with
\* and without a PV surplus
NegativeFeedInInputs(cfg) ==
    {OptInput(cfg, soc, price, Some(feed_in), pv, Const(2, 100), 15, 0, 0) :
        soc \in OptSocValues(cfg),
        price \in [1..2 -> PriceValues],
        feed_in \in {<<-1, -1>>, <<-1, 2>>},
        pv \in {Const(2, v) : v \in PvValues}}

\* a nine-step horizon whose only cheap and only expensive steps are the
\* first and the last, eight steps apart, with a low feed-in price
FarPairInputs(cfg) ==
    {OptInput(cfg, soc, price, Some(Const(9, 2)), Const(9, 0), Const(9, 100), 15, 0, spread) :
        soc \in {cfg.min_soc_wh, cfg.max_soc_wh},
        price \in {<<1, 7, 7, 7, 7, 7, 7, 7, 9>>, <<9, 7, 7, 7, 7, 7, 7, 7, 1>>},
        spread \in {0, 7}}

\* forecasts of different lengths, some of them empty; the feed-in forecast
\* is missing or longer than the horizon
UnequalInputs(cfg) ==
    {OptInput(cfg, soc, price, feed_in, pv, consumption, 15, 0, spread) :
        soc \in {cfg.min_soc_wh, cfg.max_soc_wh},
        price \in {<<>>, <<1, 4>>, <<1, 4, 9>>},
        feed_in \in {None, Some(<<2, 2, 2>>)},
        pv \in {<<>>, <<0, 0>>, <<0, 0, 0, 0>>},
        consumption \in {<<>>, <<100, 100>>, <<100, 100, 100>>},
        spread \in SpreadValues}

OptInputs(cfg) ==
    ShortInputs(cfg) \cup LongInputs(cfg) \cup NegativeFeedInInputs(cfg) \cup UnequalInputs(cfg)
        \cup FarPairInputs(cfg)


\* the installation of the coordinator: its battery and its options
CoordConfig == BatteryConfig(200, 25, 75, 200, 200, 4, 5)
CoordOptions == [degradation_cost_per_kwh |-> 0, min_price_spread |-> 0, fixed_feed_in_price |-> 2]
CONTROL_MODES == {"zero_grid", "follow_schedule", "hybrid", "manual"}
DEFAULT_CONTROL_MODE == "hybrid"

\* what the sensors and the forecast coordinator can show when a handler runs
\* the price sensor's state and whether the historical price model has data
PriceInputs ==
    {[sensor |-> "forecast", model_has_data |-> FALSE],
     [sensor |-> "numeric", model_has_data |-> FALSE],
     [sensor |-> "text", model_has_data |-> FALSE],
     [sensor |-> "unavailable", model_has_data |-> FALSE],
     [sensor |-> "unavailable", model_has_data |-> TRUE]}
CyclePrices == {<<1, 9>>, <<9, 4>>}
SocSensorStates == {Unavailable, Reading(25), Reading(75)}
GridSensorStates == {Unavailable, Reading(-300), Reading(300)}
\* the feed-in price sensor: not available (or not configured), or a forecast
NoFeedInSensor == [available |-> FALSE, forecast |-> <<>>]
FeedInSensorStates == {NoFeedInSensor, [available |-> TRUE, forecast |-> <<-1>>]}
NoForecastData == [available |-> FALSE]
ForecastData ==
    {[available |-> TRUE, pv_forecast |-> <<0>>, consumption_forecast |-> <<100>>,
      pv_dc_coupled |-> FALSE, pv_dc_forecast |-> <<>>,
      current_pv_w |-> pv, current_consumption_w |-> 100] : pv \in {0, 400}}

\* every price forecast and SoC a cycle can hand to the optimizer
CycleForecasts == CyclePrices \cup {<<prices[1]>> : prices \in CyclePrices}
CycleSocWh ==
    {(soc_percent * CoordConfig.capacity_wh) \div 100 :
        soc_percent \in {soc.state : soc \in SocSensorStates \ {Unavailable}} \cup {DEFAULT_SOC_PERCENT}}

\* optimize_battery_schedule on each of them
CycleResults ==
    [prices \in CycleForecasts, feed_in_sensor \in FeedInSensorStates, soc_wh \in CycleSocWh |->
        optimize_battery_schedule(CycleInput(CoordConfig, CoordOptions, soc_wh, prices,
                                             feed_in_sensor, CHOOSE f \in ForecastData : TRUE))]

(***************************************************************************)
(* State machine                                                           *)
(***************************************************************************)
\* OptimizationCoordinator.__init__
InitCoordinator ==
    /\ _control_mode \in CONTROL_MODES
    /\ data = None
    /\ _last_result = None
    /\ _effective_mode = "idle"
    /\ _effective_power = 0
    /\ _dp_schedule_w = 0
    /\ _last_failure_reason = NoReason
    /\ _last_price = None
    /\ price_state = NoState
    /\ steps_elapsed = 0
    /\ _optimization_enabled = TRUE
    /\ _is_on = TRUE
    /\ update_interval = "timedelta"
    /\ forecast_coordinator_data = [available |-> FALSE]

InitCommon ==
    /\ battery_config \in Configs
    /\ deadband_w \in DeadbandValues
    /\ _last_target_w = 0
    /\ ret = NoCall
    /\ has_power_sensors = TRUE
    /\ _control_mode = DEFAULT_CONTROL_MODE
    /\ InitCoordinator

Init ==
    /\ InitCommon
    /\ opt_input = NoCall

\* ZeroGridController.calculate_battery_setpoint called directly
CalculateBatterySetpoint(grid, soc, dp, mode) ==
    /\ ret' = [op |-> "calculate_battery_setpoint",
               current_grid_w |-> grid, current_soc_wh |-> soc, dp_schedule_w |-> dp, mode |-> mode,
               last_before |-> _last_target_w,
               out |-> calculate_battery_setpoint(battery_config, _last_target_w, grid, soc, dp, mode)]
    /\ UNCHANGED <<battery_config, deadband_w, _last_target_w, opt_input, coordVars>>

\* mutant: apply_deadband stores the target it accepts
ApplyDeadband_stores(target) ==
    /\ ret' = [op |-> "apply_deadband", target_w |-> target, last_before |-> _last_target_w,
               out |-> apply_deadband(target, _last_target_w, deadband_w)]
    /\ _last_target_w' = apply_deadband(target, _last_target_w, deadband_w)
    /\ UNCHANGED <<battery_config, deadband_w, opt_input, coordVars>>

\* ZeroGridController.apply_deadband called directly
ApplyDeadband(target) ==
    /\ ret' = [op |-> "apply_deadband", target_w |-> target, last_before |-> _last_target_w,
               out |-> apply_deadband(target, _last_target_w, deadband_w)]
    /\ UNCHANGED <<battery_config, deadband_w, _last_target_w, opt_input, coordVars>>

\* ZeroGridController.get_control_action called directly
GetControlAction(grid, soc, dp, mode) ==
    LET action == get_control_action(battery_config, _last_target_w, deadband_w, grid, soc, dp, mode)
    IN  /\ _last_target_w' = action.target_power_w
        /\ ret' = [op |-> "get_control_action", last_before |-> _last_target_w, action |-> action]
        /\ UNCHANGED <<battery_config, deadband_w, opt_input, coordVars>>

NextCtl ==
    \/ \E grid \in GridValues, soc \in SocValues(battery_config), dp \in DpValues, mode \in ControllerModes :
          CalculateBatterySetpoint(grid, soc, dp, mode)
    \/ \E target \in DpValues : ApplyDeadband(target)
    \/ \E grid \in GridValues, soc \in SocValues(battery_config), dp \in DpValues, mode \in ControllerModes :
          GetControlAction(grid, soc, dp, mode)

\* the controller driven by arbitrary callers
SpecCtl == Init /\ [][NextCtl]_vars

\* the net load of the house (consumption minus PV, W) in the closed loop, and
\* states of charge strictly inside the SoC window
LoadValues == {-300, -150, -100, -30, 0, 40, 100, 250, 300}
LoopSocValues(cfg) == {cfg.min_soc_wh + 25, cfg.min_soc_wh + 50}

LoopClosed == ret.op = "closed_loop_step"

\* the deadband of the number entity, its minimum 0 included
LoopDeadbandValues == DeadbandValues \cup {0}
LoopModes == {"zero_grid", "idle", "manual"}
LoopDpValues == {0, 100}

InitLoop ==
    /\ battery_config \in Configs
    /\ deadband_w \in LoopDeadbandValues
    /\ _last_target_w = 0
    /\ ret = NoCall
    /\ opt_input = NoCall
    /\ has_power_sensors = TRUE
    /\ _control_mode = DEFAULT_CONTROL_MODE
    /\ InitCoordinator

\* get_control_action on an arbitrary grid reading, before the loop is closed:
\* what _last_target_w can be when it closes
OpenLoopCall(grid, soc, dp, mode) ==
    /\ ~LoopClosed
    /\ GetControlAction(grid, soc, dp, mode)

\* get_control_action in zero_grid mode in the closed loop: the battery
\* delivers the last target exactly, so the grid meter shows the net load plus
\* the last target; the net load stays what it was when the loop closed
ClosedLoopStep(load, soc) ==
    LET grid == load + _last_target_w
        action == get_control_action(battery_config, _last_target_w, deadband_w, grid, soc, 0,
                                     "zero_grid")
    IN  /\ LoopClosed => load = ret.load_w
        /\ _last_target_w' = action.target_power_w
        /\ ret' = [op |-> "closed_loop_step", load_w |-> load, first |-> ~LoopClosed,
                   last_before |-> _last_target_w, action |-> action]
        /\ UNCHANGED <<battery_config, deadband_w, opt_input, coordVars>>

NextLoop ==
    \/ \E grid \in GridValues, soc \in SocValues(battery_config), dp \in LoopDpValues,
          mode \in LoopModes : OpenLoopCall(grid, soc, dp, mode)
    \/ \E load \in LoadValues, soc \in LoopSocValues(battery_config) : ClosedLoopStep(load, soc)

\* the controller first driven by arbitrary callers, then in zero_grid mode in
\* a closed loop with an ideal battery and a constant net load
SpecLoop == InitLoop /\ [][NextLoop]_vars

\* a SoC window that is not a multiple of the 25 Wh resolution: 0 .. 120 Wh
OddWindowConfig == BatteryConfig(200, 0, 60, 200, 200, 4, 5)
OptConfigs == Configs \cup {OddWindowConfig}

InitOpt ==
    /\ battery_config \in OptConfigs
    /\ deadband_w = 50
    /\ _last_target_w = 0
    /\ ret = NoCall
    /\ has_power_sensors = TRUE
    /\ _control_mode = DEFAULT_CONTROL_MODE
    /\ InitCoordinator
    /\ opt_input \in OptInputs(battery_config)

\* optimize_battery_schedule called on the input opt_input
Optimize ==
    /\ ret = NoCall
    /\ ret' = [op |-> "optimize_battery_schedule", result |-> optimize_battery_schedule(opt_input)]
    /\ UNCHANGED <<battery_config, deadband_w, _last_target_w, opt_input, coordVars>>

NextOpt == Optimize

\* the optimizer as a pure function of its inputs
SpecOpt == InitOpt /\ [][NextOpt]_vars

\* the battery model and the other core operations on any input, degenerate
\* ones included: a battery of zero capacity, a zero duration, empty forecasts
ZeroCapacityConfig == BatteryConfig(0, 25, 75, 200, 200, 4, 5)
ModelConfigs == Configs \cup {ZeroCapacityConfig}
ModelPowerValues == {-6000, -5100, -200, -100, 0, 100, 200, 5200}
DurationValues == {0, 15, 60}
ModelSocValues(cfg) ==
    {0, cfg.min_soc_wh, (cfg.min_soc_wh + cfg.max_soc_wh) \div 2, cfg.max_soc_wh, cfg.capacity_wh}
SocPercentValues == {Whole(5), Whole(15), Whole(50), Whole(85), Whole(95)}
DegenerateOptInputs(cfg) ==
    {OptInput(cfg, cfg.min_soc_wh, price, None, pv, consumption, ts, 0, 0) :
        price \in {<<>>, <<1>>},
        pv \in {<<>>, <<0>>},
        consumption \in {<<>>, <<100>>},
        ts \in {0, 15}}

InitModel ==
    /\ battery_config \in ModelConfigs
    /\ deadband_w = 50
    /\ _last_target_w = 0
    /\ ret = NoCall
    /\ has_power_sensors = TRUE
    /\ _control_mode = DEFAULT_CONTROL_MODE
    /\ InitCoordinator
    /\ opt_input = NoCall

CalculateEfficiency(power_w, soc_percent) ==
    /\ ret' = [op |-> "calculate_efficiency", power_w |-> power_w, soc_percent |-> soc_percent,
               outcome |-> calculate_efficiency(power_w, soc_percent, battery_config)]
    /\ UNCHANGED <<battery_config, deadband_w, _last_target_w, opt_input, coordVars>>

CalculateNewSoc(current_soc_wh, power_w, duration_minutes) ==
    /\ ret' = [op |-> "calculate_new_soc", current_soc_wh |-> current_soc_wh, power_w |-> power_w,
               duration_minutes |-> duration_minutes,
               outcome |-> calculate_new_soc(current_soc_wh, power_w, duration_minutes, battery_config)]
    /\ UNCHANGED <<battery_config, deadband_w, _last_target_w, opt_input, coordVars>>

CalculateMaxChargePower(current_soc_wh, duration_minutes) ==
    /\ ret' = [op |-> "calculate_max_charge_power", current_soc_wh |-> current_soc_wh,
               duration_minutes |-> duration_minutes,
               outcome |-> calculate_max_charge_power(current_soc_wh, duration_minutes, battery_config)]
    /\ UNCHANGED <<battery_config, deadband_w, _last_target_w, opt_input, coordVars>>

CalculateMaxDischargePower(current_soc_wh, duration_minutes) ==
    /\ ret' = [op |-> "calculate_max_discharge_power", current_soc_wh |-> current_soc_wh,
               duration_minutes |-> duration_minutes,
               outcome |-> calculate_max_discharge_power(current_soc_wh, duration_minutes, battery_config)]
    /\ UNCHANGED <<battery_config, deadband_w, _last_target_w, opt_input, coordVars>>

\* ZeroGridController.get_control_action on any battery: _last_target_w is
\* written before the returned dict is built, and building the dict divides
\* the SoC by the capacity
GetControlActionOutcome(grid, soc, dp, mode) ==
    LET action == get_control_action(battery_config, _last_target_w, deadband_w, grid, soc, dp, mode)
        soc_percent == SocPercentOf(soc, battery_config)
    IN  /\ _last_target_w' = action.target_power_w
        /\ ret' = [op |-> "get_control_action_outcome", last_before |-> _last_target_w,
                   current_grid_w |-> grid, current_soc_wh |-> soc, mode |-> mode,
                   outcome |-> IF soc_percent.raised # "none" THEN soc_percent ELSE Returns(action)]
        /\ UNCHANGED <<battery_config, deadband_w, opt_input, coordVars>>

\* optimize_battery_schedule on a degenerate input
OptimizeDegenerate(p) ==
    /\ ret' = [op |-> "optimize_degenerate", p |-> p,
               outcome |-> Returns(optimize_battery_schedule(p))]
    /\ UNCHANGED <<battery_config, deadband_w, _last_target_w, opt_input, coordVars>>

NextModel ==
    \/ \E power_w \in ModelPowerValues, soc_percent \in SocPercentValues :
          CalculateEfficiency(power_w, soc_percent)
    \/ \E current_soc_wh \in ModelSocValues(battery_config), power_w \in ModelPowerValues,
          duration_minutes \in DurationValues :
          CalculateNewSoc(current_soc_wh, power_w, duration_minutes)
    \/ \E current_soc_wh \in ModelSocValues(battery_config), duration_minutes \in DurationValues :
          CalculateMaxChargePower(current_soc_wh, duration_minutes)
    \/ \E current_soc_wh \in ModelSocValues(battery_config), duration_minutes \in DurationValues :
          CalculateMaxDischargePower(current_soc_wh, duration_minutes)
    \/ \E grid \in {-300, 300}, soc \in ModelSocValues(battery_config),
          mode \in {"zero_grid", "follow_schedule"} :
          GetControlActionOutcome(grid, soc, 100, mode)
    \/ \E p \in DegenerateOptInputs(battery_config) : OptimizeDegenerate(p)

\* the core operations called on any input
SpecModel == InitModel /\ [][NextModel]_vars

InitCoord ==
    /\ battery_config = CoordConfig
    /\ deadband_w = 50
    /\ _last_target_w = 0
    /\ ret = NoCall
    /\ opt_input = NoCall
    /\ has_power_sensors \in BOOLEAN
    /\ InitCoordinator

\* mutant: a failed cycle forgets the last optimization result
UpdateFailed_forgets(reason) ==
    /\ _last_failure_reason' = reason
    /\ _last_result' = None
    /\ UNCHANGED <<data, _effective_mode, _effective_power, _dp_schedule_w, _last_target_w,
                   steps_elapsed>>

\* raise UpdateFailed: DataUpdateCoordinator keeps the published data
UpdateFailed(reason) ==
    /\ _last_failure_reason' = reason
    /\ UNCHANGED <<data, _last_result, _effective_mode, _effective_power, _dp_schedule_w,
                   _last_target_w, steps_elapsed>>

\* _async_update_data after the optimizer has returned: arbitration of the
\* control mode, the controller's action and the published data
PublishCycle(inputs, forecast_data, battery_state, result, current_feed_in, realtime_grid_w) ==
    LET current_grid == IF realtime_grid_w # None THEN realtime_grid_w.v
                        ELSE forecast_data.current_consumption_w - forecast_data.current_pv_w
                                + battery_state.power_w
        dp_schedule_w == result.optimal_power
        effective == EffectiveMode(battery_config, _control_mode, result, current_grid,
                                   current_feed_in)
        controller_mode == _resolve_controller_mode(effective.mode, current_grid,
                                   has_power_sensors, deadband_w, _control_mode)
        control_action == get_control_action(battery_config, _last_target_w, deadband_w,
                                   current_grid, battery_state.soc_wh, dp_schedule_w,
                                   controller_mode)
    IN  /\ _last_result' = result
        /\ steps_elapsed' = 0
        /\ _effective_mode' = effective.mode
        /\ _effective_power' = effective.power
        /\ _dp_schedule_w' = dp_schedule_w
        /\ _last_target_w' = control_action.target_power_w
        /\ _last_failure_reason' = NoReason
        /\ data' = [optimization_result |-> result,
                    battery_state |-> battery_state,
                    control_action |-> OverrideWithoutSensors(control_action,
                                            has_power_sensors, effective.mode),
                    control_mode |-> _control_mode,
                    optimal_power_w |-> effective.power,
                    optimal_mode |-> effective.mode,
                    schedule_power_w |-> result.optimal_power,
                    schedule_mode |-> result.optimal_mode]
        /\ ret' = [op |-> "optimizer_cycle", inputs |-> inputs,
                   current_grid |-> current_grid, last_before |-> _last_target_w,
                   action |-> control_action]

\* _async_update_data from the battery state on: the optimizer runs on the
\* price forecast and the state of charge
RunCycle(inputs, forecast_data, price_forecast, battery_state, grid_sensor) ==
    PublishCycle(inputs, forecast_data, battery_state,
                 CycleResults[price_forecast, inputs.feed_in_sensor, battery_state.soc_wh],
                 CurrentFeedIn(ResampledFeedIn(FeedInForecast(inputs.feed_in_sensor, CoordOptions,
                                                              price_forecast),
                                               Len(price_forecast)),
                               CoordOptions),
                 _get_realtime_grid_w(has_power_sensors, grid_sensor))

\* mutant: the disabled cycle also resets the controller
ReturnCachedData_resets_controller ==
    /\ ret' = [op |-> "cached_data", returned |-> data]
    /\ _last_target_w' = 0
    /\ UNCHANGED <<data, _last_result, _effective_mode, _effective_power, _dp_schedule_w,
                   _last_failure_reason, steps_elapsed>>

\* "if not self._optimization_enabled: if self.data is not None: return self.data"
ReturnCachedData ==
    /\ ret' = [op |-> "cached_data", returned |-> data]
    /\ UNCHANGED <<data, _last_result, _effective_mode, _effective_power, _dp_schedule_w,
                   _last_failure_reason, _last_target_w, steps_elapsed>>

\* OptimizationCoordinator._async_update_data, one optimizer cycle
OptimizerCycle(forecast_data, price_input, prices, feed_in_sensor, soc_sensor, grid_sensor) ==
    LET pf == PriceForecast(price_input.sensor, price_input.model_has_data, prices)
        inputs == [forecast_data |-> forecast_data, price_input |-> price_input,
                   feed_in_sensor |-> feed_in_sensor,
                   soc_sensor |-> soc_sensor, grid_sensor |-> grid_sensor]
    IN  /\ UNCHANGED <<battery_config, deadband_w, opt_input, has_power_sensors, switchVars,
                   forecast_coordinator_data,
                       _control_mode, _last_price, price_state>>
        /\ IF ~_optimization_enabled /\ data # None
           THEN ReturnCachedData
           ELSE IF ~forecast_data.available
           THEN /\ UpdateFailed("No forecast data available")
                /\ ret' = [op |-> "update_failed", reason |-> "No forecast data available"]
           ELSE IF ~pf.ok
           THEN /\ UpdateFailed(pf.reason)
                /\ ret' = [op |-> "update_failed", reason |-> pf.reason]
           ELSE RunCycle(inputs, forecast_data, pf.forecast,
                         get_current_battery_state(battery_config, data, soc_sensor),
                         grid_sensor)

\* mutant: the tick stores the mode of its control action as the effective mode
RealtimeTick_tracks_mode(soc_sensor, grid_sensor) ==
    LET current_grid_w == _get_realtime_grid_w(has_power_sensors, grid_sensor)
        inputs == [soc_sensor |-> soc_sensor, grid_sensor |-> grid_sensor]
    IN  /\ UNCHANGED <<battery_config, deadband_w, opt_input, has_power_sensors, switchVars,
                   forecast_coordinator_data, _control_mode,
                       _last_result, _effective_power, _dp_schedule_w,
                       _last_failure_reason, _last_price, price_state, steps_elapsed>>
        /\ IF data = None \/ _last_result = None \/ current_grid_w = None
           THEN /\ ret' = [op |-> "realtime_update", inputs |-> inputs, controller_called |-> FALSE]
                /\ UNCHANGED <<data, _last_target_w, _effective_mode>>
           ELSE LET battery_state == get_current_battery_state(battery_config, data, soc_sensor)
                    controller_mode == _resolve_controller_mode(_effective_mode, current_grid_w.v,
                                               has_power_sensors, deadband_w, _control_mode)
                    control_action == get_control_action(battery_config, _last_target_w, deadband_w,
                                               current_grid_w.v, battery_state.soc_wh,
                                               _dp_schedule_w, controller_mode)
                IN  /\ _last_target_w' = control_action.target_power_w
                    /\ _effective_mode' = control_action.action_mode
                    /\ data' = [data EXCEPT !.control_action = control_action,
                                            !.battery_state = battery_state,
                                            !.optimal_power_w = control_action.target_power_w,
                                            !.optimal_mode = control_action.action_mode]
                    /\ ret' = [op |-> "realtime_update", inputs |-> inputs,
                               controller_called |-> TRUE, last_before |-> _last_target_w,
                               action |-> control_action]

\* OptimizationCoordinator._handle_realtime_update, one real-time tick
RealtimeTick(soc_sensor, grid_sensor) ==
    LET current_grid_w == _get_realtime_grid_w(has_power_sensors, grid_sensor)
        inputs == [soc_sensor |-> soc_sensor, grid_sensor |-> grid_sensor]
    IN  /\ UNCHANGED <<battery_config, deadband_w, opt_input, has_power_sensors, switchVars,
                   forecast_coordinator_data, _control_mode,
                       _last_result, _effective_mode, _effective_power, _dp_schedule_w,
                       _last_failure_reason, _last_price, price_state, steps_elapsed>>
        /\ IF data = None \/ _last_result = None \/ current_grid_w = None
           THEN /\ ret' = [op |-> "realtime_update", inputs |-> inputs, controller_called |-> FALSE]
                /\ UNCHANGED <<data, _last_target_w>>
           ELSE LET battery_state == get_current_battery_state(battery_config, data, soc_sensor)
                    controller_mode == _resolve_controller_mode(_effective_mode, current_grid_w.v,
                                               has_power_sensors, deadband_w, _control_mode)
                    control_action == get_control_action(battery_config, _last_target_w, deadband_w,
                                               current_grid_w.v, battery_state.soc_wh,
                                               _dp_schedule_w, controller_mode)
                IN  /\ _last_target_w' = control_action.target_power_w
                    /\ data' = [data EXCEPT !.control_action = control_action,
                                            !.battery_state = battery_state,
                                            !.optimal_power_w = control_action.target_power_w,
                                            !.optimal_mode = control_action.action_mode]
                    /\ ret' = [op |-> "realtime_update", inputs |-> inputs,
                               controller_called |-> TRUE, last_before |-> _last_target_w,
                               action |-> control_action]

\* "elif self._last_price != 0: change_pct = ...; if change_pct >= 0.10"
SignificantChange(last_price, new_price) ==
    last_price # 0 /\ 10 * Abs(new_price - last_price) >= Abs(last_price)

\* OptimizationCoordinator._handle_price_change on the state-change event
\* from the sensor's state to new_state
HandlePriceChange(new_state) ==
    LET old_state == price_state
        was_unavailable == \/ ~_last_price.some
                           \/ old_state.kind = "none"
                           \/ old_state.kind = "unavailable"
        event == [old_state |-> old_state, new_state |-> new_state, last_before |-> _last_price]
    IN  /\ price_state' = new_state
        /\ UNCHANGED <<battery_config, deadband_w, _last_target_w, opt_input, has_power_sensors, switchVars,
                   forecast_coordinator_data,
                       _control_mode, data, _last_result, _effective_mode, _effective_power,
                       _dp_schedule_w, _last_failure_reason, steps_elapsed>>
        /\ IF new_state.kind # "numeric"
           THEN /\ _last_price' = _last_price
                /\ ret' = [op |-> "price_change", event |-> event, refresh_requested |-> FALSE]
           ELSE IF was_unavailable
           THEN /\ _last_price' = Some(new_state.price)
                /\ ret' = [op |-> "price_change", event |-> event, refresh_requested |-> TRUE]
           ELSE IF _last_price.v # 0
           THEN /\ _last_price' = Some(new_state.price)
                /\ ret' = [op |-> "price_change", event |-> event,
                           refresh_requested |-> SignificantChange(_last_price.v, new_state.price)]
           ELSE /\ _last_price' = _last_price
                /\ ret' = [op |-> "price_change", event |-> event, refresh_requested |-> FALSE]

\* one optimizer time step goes by without a new optimization result
TimeStepElapses ==
    /\ _last_result # None
    /\ steps_elapsed < MaxElapsed
    /\ steps_elapsed + 1 < Len(_last_result.power_schedule)
    /\ steps_elapsed' = steps_elapsed + 1
    /\ ret' = [op |-> "time_step_elapses"]
    /\ UNCHANGED <<battery_config, deadband_w, _last_target_w, opt_input, has_power_sensors, switchVars,
                   forecast_coordinator_data,
                   _control_mode, data, _last_result, _effective_mode, _effective_power,
                   _dp_schedule_w, _last_failure_reason, _last_price, price_state>>

\* what the handlers can read: without power sensors there is no grid sensor,
\* with them the grid estimate from the forecast data is not used
GridSensorInputs == IF has_power_sensors THEN GridSensorStates ELSE {Unavailable}
ForecastDataInputs ==
    {NoForecastData} \cup
    (IF has_power_sensors THEN {f \in ForecastData : f.current_pv_w = 0} ELSE ForecastData)

\* a cycle that raises UpdateFailed returns before it reads the later inputs
CycleReads(forecast_data, price_input) ==
    forecast_data.available /\ PriceForecast(price_input.sensor, price_input.model_has_data, <<1>>).ok
CyclePriceInputs(forecast_data, price_input) ==
    IF CycleReads(forecast_data, price_input) THEN CyclePrices ELSE {<<1>>}
CycleFeedInInputs(forecast_data, price_input) ==
    IF CycleReads(forecast_data, price_input) THEN FeedInSensorStates ELSE {NoFeedInSensor}
CycleSocInputs(forecast_data, price_input) ==
    IF CycleReads(forecast_data, price_input) THEN SocSensorStates ELSE {Unavailable}
CycleGridInputs(forecast_data, price_input) ==
    IF CycleReads(forecast_data, price_input) THEN GridSensorInputs ELSE {Unavailable}

Next ==
    \/ \E forecast_data \in ForecastDataInputs, price_input \in PriceInputs :
          \E prices \in CyclePriceInputs(forecast_data, price_input),
             feed_in_sensor \in CycleFeedInInputs(forecast_data, price_input),
             soc_sensor \in CycleSocInputs(forecast_data, price_input),
             grid_sensor \in CycleGridInputs(forecast_data, price_input) :
             OptimizerCycle(forecast_data, price_input, prices, feed_in_sensor, soc_sensor,
                            grid_sensor)
    \/ \E soc_sensor \in SocSensorStates, grid_sensor \in GridSensorInputs :
          RealtimeTick(soc_sensor, grid_sensor)

\* the coordinator: optimizer cycles and real-time ticks in any order, under the
\* control mode of the configuration
Spec == InitCoord /\ [][Next]_vars

\* BatteryOptimizationSwitch.async_turn_off
AsyncTurnOff ==
    /\ _is_on' = FALSE
    /\ update_interval' = "None"
    /\ ret' = [op |-> "turn_off"]
    /\ UNCHANGED <<battery_config, deadband_w, _last_target_w, opt_input, has_power_sensors,
                   _control_mode, data, _last_result, _effective_mode, _effective_power,
                   _dp_schedule_w, _last_failure_reason, _last_price, price_state,
                   steps_elapsed, _optimization_enabled,
                   forecast_coordinator_data>>

\* BatteryOptimizationSwitch.async_turn_on
AsyncTurnOn ==
    /\ _is_on' = TRUE
    /\ update_interval' = "timedelta"
    /\ ret' = [op |-> "turn_on", refresh_requested |-> TRUE]
    /\ UNCHANGED <<battery_config, deadband_w, _last_target_w, opt_input, has_power_sensors,
                   _control_mode, data, _last_result, _effective_mode, _effective_power,
                   _dp_schedule_w, _last_failure_reason, _last_price, price_state,
                   steps_elapsed, _optimization_enabled,
                   forecast_coordinator_data>>

\* the setter of OptimizationCoordinator.optimization_enabled
SetOptimizationEnabled(value) ==
    /\ _optimization_enabled' = value
    /\ ret' = [op |-> "set_optimization_enabled", value |-> value]
    /\ UNCHANGED <<battery_config, deadband_w, _last_target_w, opt_input, has_power_sensors,
                   _control_mode, data, _last_result, _effective_mode, _effective_power,
                   _dp_schedule_w, _last_failure_reason, _last_price, price_state,
                   steps_elapsed, _is_on, update_interval,
                   forecast_coordinator_data>>

InitSwitch ==
    /\ InitCoord
    /\ has_power_sensors
    /\ _control_mode = DEFAULT_CONTROL_MODE

\* the refresh that _handle_optimization_interval, _handle_price_change and
\* _handle_soc_available request runs _async_update_data whatever the switch
\* and update_interval are
NextSwitch ==
    \/ AsyncTurnOff
    \/ AsyncTurnOn
    \/ \E value \in BOOLEAN : SetOptimizationEnabled(value)
    \/ \E forecast_data \in ForecastDataInputs, price_input \in PriceInputs :
          \E prices \in CyclePriceInputs(forecast_data, price_input),
             soc_sensor \in CycleSocInputs(forecast_data, price_input),
             grid_sensor \in CycleGridInputs(forecast_data, price_input) :
             OptimizerCycle(forecast_data, price_input, prices, NoFeedInSensor, soc_sensor,
                            grid_sensor)

\* the switch, the flag of the coordinator and the optimizer cycles in any order
SpecSwitch == InitSwitch /\ [][NextSwitch]_vars

\* the hourly prices of a day, one of them possibly not a number
HourlyPrices(first, bad_hour) ==
    [i \in 1..24 |-> [ok |-> i # bad_hour + 1, price |-> first + i - 1]]

\* the lists a price sensor can carry as today / raw_today and as tomorrow /
\* raw_tomorrow, and its state
TodayLists == {None, Some(HourlyPrices(0, 24)), Some(HourlyPrices(0, 12))}
TomorrowLists == {None, Some(HourlyPrices(24, 24))}
SensorStateValues == {[ok |-> FALSE, price |-> 0], [ok |-> TRUE, price |-> 7]}

\* price sensors that expose one family of attributes, or none
PriceSensorStates_extract ==
    {[forecast_prices |-> None, forecast |-> forecast, raw_today |-> raw_today,
      raw_tomorrow |-> raw_tomorrow, today |-> today, tomorrow |-> tomorrow, state |-> st] :
        forecast \in {None, Some(<<[ok |-> TRUE, price |-> 5], [ok |-> TRUE, price |-> 6]>>)},
        raw_today \in {None, Some(HourlyPrices(0, 24))},
        raw_tomorrow \in {None},
        today \in TodayLists,
        tomorrow \in TomorrowLists,
        st \in SensorStateValues}

InitExtract ==
    /\ InitCoord
    /\ has_power_sensors
    /\ _control_mode = DEFAULT_CONTROL_MODE

\* extract_price_forecast_with_interval called at an hour of the day
ExtractPriceForecast(state, hour) ==
    /\ ret' = [op |-> "extract_price_forecast_with_interval", state |-> state, hour |-> hour,
               out |-> extract_price_forecast_with_interval(state, hour)]
    /\ UNCHANGED <<battery_config, deadband_w, _last_target_w, opt_input, coordVars>>

NextExtract ==
    \E state \in PriceSensorStates_extract, hour \in 0..23 : ExtractPriceForecast(state, hour)

\* the price extraction as a function of the sensor's attributes and the hour
SpecExtract == InitExtract /\ [][NextExtract]_vars

\* ForecastCoordinator._async_update_data: new lists are built and published
PublishForecast(pv, consumption, dc) ==
    /\ forecast_coordinator_data' =
          [available |-> TRUE, pv_forecast |-> pv, consumption_forecast |-> consumption,
           pv_dc_coupled |-> dc.coupled, pv_dc_forecast |-> dc.forecast]
    /\ ret' = [op |-> "publish_forecast"]
    /\ UNCHANGED <<battery_config, deadband_w, _last_target_w, opt_input, has_power_sensors,
                   _control_mode, data, _last_result, _effective_mode, _effective_power,
                   _dp_schedule_w, _last_failure_reason, _last_price, price_state,
                   steps_elapsed, switchVars>>

\* _async_update_data of the optimizer, "Resample all forecasts to time step
\* resolution" to "Pad shorter forecasts to match price horizon", with a
\* price model that has no data.  A name bound to the result of
\* resample_forecast with equal intervals is bound to the list that was passed
\* in, and extend / append on it change that list.
ResampleAndPad(time_step, price_forecast, price_interval, feed_in_forecast) ==
    LET published == forecast_coordinator_data
        resampled_prices == resample_forecast(price_forecast, price_interval, time_step)
        n == Len(resampled_prices)
        resampled_feed_in ==
            Pad(resample_forecast(feed_in_forecast, price_interval, time_step), n, "last")
        pv_forecast == Pad(resample_forecast(published.pv_forecast, 60, time_step), n, "zero")
        consumption_forecast ==
            Pad(resample_forecast(published.consumption_forecast, 60, time_step), n, "last")
        dc_used == /\ published.pv_dc_coupled
                   /\ \E i \in 1..Len(published.pv_dc_forecast) : published.pv_dc_forecast[i] > 0
        pv_dc_forecast == Pad(resample_forecast(published.pv_dc_forecast, 60, time_step), n, "zero")
    IN  /\ published.available
        /\ forecast_coordinator_data' =
              IF ReturnsSameList(60, time_step)
              THEN [published EXCEPT !.pv_forecast = pv_forecast,
                                     !.consumption_forecast = consumption_forecast,
                                     !.pv_dc_forecast = IF dc_used THEN pv_dc_forecast ELSE @]
              ELSE published
        /\ ret' = [op |-> "resample_and_pad", time_step |-> time_step,
                   price_interval |-> price_interval,
                   price_forecast_before |-> price_forecast,
                   price_forecast_after |-> price_forecast,
                   feed_in_forecast_before |-> feed_in_forecast,
                   feed_in_forecast_after |->
                       IF feed_in_forecast # <<>> /\ ReturnsSameList(price_interval, time_step)
                       THEN resampled_feed_in ELSE feed_in_forecast,
                   n_steps |-> n]
        /\ UNCHANGED <<battery_config, deadband_w, _last_target_w, opt_input, has_power_sensors,
                       _control_mode, data, _last_result, _effective_mode, _effective_power,
                       _dp_schedule_w, _last_failure_reason, _last_price, price_state,
                       steps_elapsed, switchVars>>

\* the lists the forecast coordinator publishes and the price sensors deliver:
\* shorter than, as long as and longer than each other
PublishedLists == {<<>>, <<400>>, <<400, 800, 1200>>}
PublishedDcLists ==
    {[coupled |-> FALSE, forecast |-> <<>>], [coupled |-> TRUE, forecast |-> <<0>>],
     [coupled |-> TRUE, forecast |-> <<40>>]}
ExtractedPriceLists == {<<8>>, <<8, 4>>, <<4, 16, 8, 12>>}
TimeStepOptions == {15, 30, 60}

NextResample ==
    \/ \E pv \in PublishedLists, consumption \in PublishedLists, dc \in PublishedDcLists :
          PublishForecast(pv, consumption, dc)
    \/ \E time_step \in TimeStepOptions, price_interval \in TimeStepOptions,
          price_forecast \in ExtractedPriceLists,
          feed_in_forecast \in ExtractedPriceLists \cup {<<>>} :
          ResampleAndPad(time_step, price_forecast, price_interval, feed_in_forecast)

\* forecast publications and input preparations of optimizer cycles in any order
SpecResample == InitExtract /\ [][NextResample]_vars

\* the price events: negative, zero and positive prices, 5 % and 10 % apart
PriceEventValues == {-10, -9, 0, 100, 105, 110}
PriceStates == {NoState, UnavailableState} \cup {NumericState(price) : price \in PriceEventValues}

InitPrice ==
    /\ InitCoord
    /\ has_power_sensors
    /\ _control_mode = DEFAULT_CONTROL_MODE

NextPrice == \E new_state \in PriceStates : HandlePriceChange(new_state)

\* the price sensor changing state in any order
SpecPrice == InitPrice /\ [][NextPrice]_vars

\* _async_update_data from the feed-in forecast to the padding: the forecast
\* vectors a cycle hands to optimize_battery_schedule
PrepareCycleInput(prices, feed_in_sensor, forecast_data) ==
    /\ ret' = [op |-> "cycle_input",
               raw |-> [prices |-> prices, feed_in_sensor |-> feed_in_sensor,
                        forecast_data |-> forecast_data],
               args |-> CycleInput(battery_config, CoordOptions,
                                   get_current_battery_state(battery_config, data, Unavailable).soc_wh,
                                   prices, feed_in_sensor, forecast_data)]
    /\ UNCHANGED <<battery_config, deadband_w, _last_target_w, opt_input, coordVars>>

\* forecasts shorter than, as long as and longer than the price forecast
RawPrices == {<<4>>, <<4, 9>>}
RawFeedInSensors ==
    {NoFeedInSensor} \cup {[available |-> TRUE, forecast |-> f] : f \in {<<>>, <<3>>, <<3, 5, 7>>}}
RawForecastData ==
    {[available |-> TRUE, pv_forecast |-> pv, consumption_forecast |-> consumption,
      pv_dc_coupled |-> dc.coupled, pv_dc_forecast |-> dc.forecast,
      current_pv_w |-> 0, current_consumption_w |-> 100] :
        pv \in {<<>>, <<300>>, <<300, 200, 100>>},
        consumption \in {<<>>, <<100>>, <<100, 200, 300>>},
        dc \in {[coupled |-> FALSE, forecast |-> <<>>], [coupled |-> TRUE, forecast |-> <<0>>],
                [coupled |-> TRUE, forecast |-> <<50>>], [coupled |-> TRUE, forecast |-> <<50, 60, 70>>]}}

NextInputs ==
    \E prices \in RawPrices, feed_in_sensor \in RawFeedInSensors, forecast_data \in RawForecastData :
        PrepareCycleInput(prices, feed_in_sensor, forecast_data)

\* the input preparation of a cycle as a function of what the sensors and the
\* forecast coordinator deliver
SpecInputs == InitPrice /\ [][NextInputs]_vars

\* the inputs of the cycles and ticks while time goes by
TimePriceInputs == {pi \in PriceInputs : pi.sensor = "forecast"}
TimeSocStates == SocSensorStates \ {Unavailable}
TimeGridInputs == IF has_power_sensors THEN GridSensorStates \ {Unavailable} ELSE {Unavailable}
TimeForecastInputs == {f \in ForecastDataInputs : f.available => f.current_pv_w = 0}

NextTime ==
    \/ \E forecast_data \in TimeForecastInputs, price_input \in TimePriceInputs :
          \E prices \in CyclePriceInputs(forecast_data, price_input),
             soc_sensor \in (IF forecast_data.available THEN TimeSocStates ELSE {Unavailable}),
             grid_sensor \in (IF forecast_data.available THEN TimeGridInputs ELSE {Unavailable}) :
             OptimizerCycle(forecast_data, price_input, prices, NoFeedInSensor, soc_sensor,
                            grid_sensor)
    \/ \E soc_sensor \in TimeSocStates, grid_sensor \in TimeGridInputs :
          RealtimeTick(soc_sensor, grid_sensor)
    \/ TimeStepElapses

\* the coordinator while optimizer time steps go by between the cycles
SpecTime == InitCoord /\ [][NextTime]_vars

(***************************************************************************)
(* Properties                                                              *)
(***************************************************************************)
IsSetpointCall == ret.op = "calculate_battery_setpoint"
IsControlAction == ret.op = "get_control_action"
IsOptimized == ret.op = "optimize_battery_schedule"

\* the target of a zero_grid / follow_schedule call after the clamp to rated
\* power and before the SoC limits
RatedTarget(mode, last_w, grid, dp) ==
    LET wanted == IF mode = "zero_grid" THEN last_w - grid ELSE dp
    IN  IF wanted > battery_config.max_charge_w THEN battery_config.max_charge_w
        ELSE IF wanted < -battery_config.max_discharge_w THEN -battery_config.max_discharge_w
        ELSE wanted

\* C1: in mode zero_grid or follow_schedule, calculate_battery_setpoint never
\* returns a negative setpoint when current_soc <= min_soc and never a positive
\* one when current_soc >= max_soc, whatever last_target_w, the grid reading
\* and the DP value; the forbidden setpoint becomes 0, any other is unchanged.
C1_SocLimitHardStop ==
    (IsSetpointCall /\ ret.mode \in {"zero_grid", "follow_schedule"}) =>
        LET rated == RatedTarget(ret.mode, ret.last_before, ret.current_grid_w, ret.dp_schedule_w)
        IN  /\ ret.current_soc_wh <= battery_config.min_soc_wh => ret.out >= 0
            /\ ret.current_soc_wh >= battery_config.max_soc_wh => ret.out <= 0
            /\ ret.out \in {0, rated}

\* a discharge wanted at exactly min_soc, stopped
C1_Witness ==
    /\ IsSetpointCall
    /\ ret.mode = "zero_grid"
    /\ ret.current_soc_wh = battery_config.min_soc_wh
    /\ ret.last_before # 0
    /\ ret.last_before - ret.current_grid_w < 0
    /\ ret.out = 0

\* C2: after any sequence of get_control_action calls the returned
\* target_power_w and the stored last_target_w lie in
\* [-max_discharge_w, +max_charge_w].
C2_TargetWithinRatedPower ==
    /\ -battery_config.max_discharge_w <= _last_target_w
    /\ _last_target_w <= battery_config.max_charge_w
    /\ IsControlAction =>
          /\ -battery_config.max_discharge_w <= ret.action.target_power_w
          /\ ret.action.target_power_w <= battery_config.max_charge_w

\* the integrator asked for more than the rated charge power
C2_Witness ==
    /\ IsControlAction
    /\ ret.action.mode = "zero_grid"
    /\ ret.last_before > 0
    /\ ret.last_before - ret.action.current_grid_w > battery_config.max_charge_w
    /\ _last_target_w = battery_config.max_charge_w

C8_SocScheduleInBounds ==
    (/\ IsOptimized
     /\ battery_config.min_soc_wh <= opt_input.current_soc_wh
     /\ opt_input.current_soc_wh <= battery_config.max_soc_wh) =>
        \A k \in 1..Len(ret.result.soc_schedule) :
            /\ battery_config.min_soc_wh <= ret.result.soc_schedule[k]
            /\ ret.result.soc_schedule[k] <= battery_config.max_soc_wh

\* a discharge step of the returned schedule whose energy is not in the
\* battery any more: the trajectory stops at min_soc
C8_Witness ==
    /\ IsOptimized
    /\ \E t \in 1..Len(ret.result.power_schedule) :
          /\ ret.result.power_schedule[t] < 0
          /\ ret.result.soc_schedule[t]
                + (ret.result.power_schedule[t] * opt_input.time_step_minutes) \div 60
                < battery_config.min_soc_wh
          /\ ret.result.soc_schedule[t + 1] = battery_config.min_soc_wh

\* C9: every entry of power_schedule, and optimal_power, is a multiple of
\* 100 W between -floor(max_discharge_w / 100) * 100 and
\* floor(max_charge_w / 100) * 100, hence within the rated power.
C9_ActionsWithinRatedPower ==
    IsOptimized =>
        \A pw \in {ret.result.power_schedule[t] : t \in 1..Len(ret.result.power_schedule)}
                  \cup {ret.result.optimal_power} :
            /\ -battery_config.max_discharge_w <= pw
            /\ pw <= battery_config.max_charge_w
            /\ pw % 100 = 0
            /\ pw <= (battery_config.max_charge_w \div 100) * 100
            /\ pw >= -((battery_config.max_discharge_w \div 100) * 100)

\* a rated charge power that is not a multiple of 100 W, and a step that
\* charges at the largest action below it
C9_Witness ==
    /\ IsOptimized
    /\ battery_config.max_charge_w % 100 # 0
    /\ \E t \in 1..Len(ret.result.power_schedule) :
          ret.result.power_schedule[t] = (battery_config.max_charge_w \div 100) * 100

\* charge cost at step i (1-based): the feed-in price when the PV surplus
\* exceeds 50 W, else the buy price
ChargeCostAt(i) ==
    LET feed_in == IF opt_input.feed_in_forecast.some
                   THEN opt_input.feed_in_forecast.v ELSE opt_input.price_forecast
    IN  IF opt_input.pv_forecast[i] - opt_input.consumption_forecast[i] > 50
        THEN feed_in[i] ELSE opt_input.price_forecast[i]

\* effective spread of a (charging step c, discharging step d) pair below the
\* threshold: price[d] - cost[c] / RTE < (2 * degradation + min_spread) / sqrt(RTE)
BelowThreshold(c, d) ==
    LET n == battery_config.rte_n
        m == battery_config.rte_d
    IN  opt_input.price_forecast[d] * n * n - ChargeCostAt(c) * m * m
            < (2 * opt_input.degradation_cost_per_kwh + opt_input.min_price_spread) * m * n

OppositePair(modes, i, j) ==
    \/ modes[i] = "charging" /\ modes[j] = "discharging"
    \/ modes[i] = "discharging" /\ modes[j] = "charging"

\* C10: the returned schedule has no pair of steps i < j <= i + 7 with
\* opposite non-idle modes whose effective spread is below the threshold.
C10_NoUnprofitablePair ==
    IsOptimized =>
        LET modes == ret.result.mode_schedule
        IN  \A i \in 1..Len(modes) : \A j \in (i + 1)..Min(i + 7, Len(modes)) :
                /\ (modes[i] = "charging" /\ modes[j] = "discharging") => ~BelowThreshold(i, j)
                /\ (modes[i] = "discharging" /\ modes[j] = "charging") => ~BelowThreshold(j, i)

\* the schedule of the forward pass, before the filter
UnfilteredPower ==
    Forward(opt_input, Backward(opt_input, 0).policy, 0,
            soc_states(battery_config, _find_nearest_soc_idx(battery_config, opt_input.current_soc_wh))).power

\* the filter has removed a step and an opposite pair is left in the window
C10_Witness ==
    /\ IsOptimized
    /\ UnfilteredPower # ret.result.power_schedule
    /\ \E i \in 1..Len(ret.result.mode_schedule) :
          \E j \in (i + 1)..Min(i + 7, Len(ret.result.mode_schedule)) :
              OppositePair(ret.result.mode_schedule, i, j)

IsCycle == ret.op = "optimizer_cycle"
IsControllerTick == ret.op = "realtime_update" /\ ret.controller_called

\* C4: under control mode follow_schedule every control action, of the cycle
\* and of each real-time tick, executes the DP's first step: the controller
\* runs in follow_schedule with the DP power when the step charges or
\* discharges, and in idle, asking for 0 W, when the step is idle, whatever
\* the grid reading and whether or not power sensors are configured.
C4_FollowScheduleExact ==
    ((IsCycle \/ IsControllerTick) /\ _control_mode = "follow_schedule") =>
        /\ _last_result.optimal_mode \in {"charging", "discharging"} =>
              /\ ret.action.mode = "follow_schedule"
              /\ ret.action.dp_schedule_w = _last_result.optimal_power
        /\ _last_result.optimal_mode = "idle" =>
              /\ ret.action.mode = "idle"
              /\ ret.action.raw_target_w = 0

\* C5: in hybrid mode with an idle first DP step, the effective mode is idle
\* when a later step discharges and the grid is not importing, zero_grid in
\* every other case; the effective power is 0.
C5_HybridIdle ==
    (IsCycle /\ _control_mode = "hybrid" /\ _last_result.optimal_mode = "idle") =>
        LET later_discharge ==
                \E t \in 2..Len(_last_result.mode_schedule) :
                    _last_result.mode_schedule[t] = "discharging"
            importing == ret.current_grid > 0
        IN  /\ _effective_power = 0
            /\ _effective_mode = IF later_discharge /\ ~importing THEN "idle" ELSE "zero_grid"

\* C6: a real-time tick without an optimization result, or without grid
\* telemetry (no power sensors, or power sensors that report unknown or
\* unavailable), calls no controller and changes neither last_target_w nor
\* the published data.
C6_TickNoOp ==
    [][(/\ ret'.op = "realtime_update"
        /\ \/ _last_result = None
           \/ ~has_power_sensors
           \/ ~ret'.inputs.grid_sensor.available) =>
          /\ ~ret'.controller_called
          /\ _last_target_w' = _last_target_w
          /\ data' = data]_vars

\* the price input is missing: the sensor gives no forecast and no number,
\* and the historical price model has no data
PriceMissing(price_input) == ~PriceForecast(price_input.sensor, price_input.model_has_data, <<1>>).ok

CycleOutputsUnchanged ==
    UNCHANGED <<_last_result, _effective_mode, _effective_power, _dp_schedule_w, data, _last_target_w>>

\* C7 as claimed: a cycle that starts without forecast data, without a price
\* input or with an unavailable SoC sensor aborts, so a cycle that completes
\* had all three; an aborted cycle changes none of _last_result,
\* _effective_mode, _effective_power, _dp_schedule_w, the published data and
\* last_target_w.
C7_AbortOnMissingInput ==
    [][/\ ret'.op = "update_failed" => CycleOutputsUnchanged
       /\ ret'.op = "optimizer_cycle" =>
            /\ ret'.inputs.forecast_data.available
            /\ ~PriceMissing(ret'.inputs.price_input)
            /\ ret'.inputs.soc_sensor.available]_vars

\* C7 amended: a cycle aborts exactly when the forecast data or the price
\* input is missing; the aborted cycle changes none of _last_result,
\* _effective_mode, _effective_power, _dp_schedule_w, the published data and
\* last_target_w, and records the failure reason.  A cycle with an
\* unavailable SoC sensor does not abort: it runs with the SoC last published,
\* or with 50 % when nothing was published yet.  A cycle that does not abort
\* publishes its result and clears the failure reason, whatever failed before.
C7_AbortOnMissingForecastOrPrice ==
    [][/\ ret'.op = "update_failed" =>
            /\ CycleOutputsUnchanged
            /\ _last_failure_reason' = ret'.reason
            /\ _last_failure_reason' # NoReason
       /\ ret'.op = "optimizer_cycle" =>
            /\ ret'.inputs.forecast_data.available
            /\ ~PriceMissing(ret'.inputs.price_input)
            /\ _last_result' # None
            /\ data' # None
            /\ data'.optimization_result = _last_result'
            /\ _last_failure_reason' = NoReason
            /\ ~ret'.inputs.soc_sensor.available =>
                  data'.battery_state.soc_percent =
                      IF data # None THEN data.battery_state.soc_percent ELSE DEFAULT_SOC_PERCENT]_vars

\* a cycle aborted after a successful one that left the battery charging
C7_Witness ==
    /\ ret.op = "update_failed"
    /\ _last_failure_reason = ret.reason
    /\ _last_result # None
    /\ data # None
    /\ _last_target_w > 0

\* C11: the returned soc_schedule starts at the current SoC and every step
\* moves it by exactly the energy of the returned power_schedule:
\* soc_schedule[t + 1] = soc_schedule[t] + power_schedule[t] * step_hours.
C11_TrajectoryMatchesPower ==
    IsOptimized =>
        /\ ret.result.soc_schedule[1] = opt_input.current_soc_wh
        /\ \A t \in 1..Len(ret.result.power_schedule) :
              ret.result.soc_schedule[t + 1] =
                  ret.result.soc_schedule[t]
                      + EnergyWh(ret.result.power_schedule[t], opt_input.time_step_minutes)

C13_LastTargetWrittenOnlyByControlAction ==
    /\ _last_target_w = 0
    /\ [][/\ ret'.op = "get_control_action" => _last_target_w' = ret'.action.target_power_w
          /\ ret'.op \in {"calculate_battery_setpoint", "apply_deadband"} =>
                _last_target_w' = _last_target_w]_vars

\* apply_deadband accepted a target that differs from a non-zero last
\* target, and the last target is still the old one
C13_Witness ==
    /\ ret.op = "apply_deadband"
    /\ ret.last_before # 0
    /\ ret.out # ret.last_before
    /\ _last_target_w = ret.last_before

\* the feed-in price of the current step in a completed cycle: the first
\* value of the feed-in sensor's forecast, or the fixed price
CycleFeedIn ==
    IF ret.inputs.feed_in_sensor.available /\ ret.inputs.feed_in_sensor.forecast # <<>>
    THEN ret.inputs.feed_in_sensor.forecast[1]
    ELSE CoordOptions.fixed_feed_in_price

\* current_feed_in * sqrt(RTE) >= shadow price
SellingBeatsKeeping ==
    CycleFeedIn * battery_config.rte_n * _last_result.shadow_price.den
        >= _last_result.shadow_price.num * battery_config.rte_d

\* C14: in hybrid mode with a discharging first DP step, the effective mode is
\* discharging at the scheduled power exactly when
\* current_feed_in * sqrt(RTE) >= shadow price, and zero_grid with effective
\* power 0 otherwise.
C14_HybridDischarging ==
    (IsCycle /\ _control_mode = "hybrid" /\ _last_result.optimal_mode = "discharging") =>
        IF SellingBeatsKeeping
        THEN /\ _effective_mode = "discharging"
             /\ _effective_power = _last_result.optimal_power
        ELSE /\ _effective_mode = "zero_grid"
             /\ _effective_power = 0

\* a hybrid cycle that discharges at the scheduled power
C14_Witness ==
    /\ IsCycle
    /\ _control_mode = "hybrid"
    /\ _last_result.optimal_mode = "discharging"
    /\ SellingBeatsKeeping
    /\ _effective_mode = "discharging"
    /\ _effective_power < 0

\* C15: in hybrid mode with a charging first DP step, the effective mode is
\* zero_grid with power 0 when the grid exports and the feed-in price is
\* >= 0, and charging at the DP power when the grid exports at a negative
\* feed-in price or does not export.
C15_HybridCharging ==
    (IsCycle /\ _control_mode = "hybrid" /\ _last_result.optimal_mode = "charging") =>
        IF ret.current_grid < 0 /\ CycleFeedIn >= 0
        THEN /\ _effective_mode = "zero_grid"
             /\ _effective_power = 0
        ELSE /\ _effective_mode = "charging"
             /\ _effective_power = _last_result.optimal_power

\* a hybrid cycle that charges at the DP rate while the grid exports at a
\* negative feed-in price
C15_Witness ==
    /\ IsCycle
    /\ _control_mode = "hybrid"
    /\ _last_result.optimal_mode = "charging"
    /\ ret.current_grid < 0
    /\ CycleFeedIn < 0
    /\ _effective_mode = "charging"
    /\ _effective_power > 0

\* the DP schedule value of the optimizer time step that is current now
CurrentStepPower == _last_result.power_schedule[steps_elapsed + 1]

\* C16: whenever the controller runs in follow_schedule mode, in a cycle or in
\* a real-time tick, its DP input is the schedule value of the time step that
\* is current at that moment, and its raw target is that value clamped to
\* rated power and SoC limits, however many steps have gone by since the
\* schedule was computed.
C16_FollowsCurrentStep ==
    ((IsCycle \/ IsControllerTick) /\ ret.action.mode = "follow_schedule") =>
        /\ ret.action.dp_schedule_w = CurrentStepPower
        /\ ret.action.raw_target_w =
              _calculate_follow_schedule(battery_config, CurrentStepPower, ret.action.soc_wh)

DpOutputs == <<_last_result, _effective_mode, _effective_power, _dp_schedule_w>>

\* C17: _last_result, _effective_mode, _effective_power and _dp_schedule_w
\* change only in a completed optimizer cycle; a real-time tick leaves them
\* unchanged and, when it calls the controller, resolves the controller mode
\* from the stored effective mode and hands over the stored DP power.
C17_TickLeavesDpOutputs ==
    [][/\ DpOutputs' # DpOutputs => ret'.op = "optimizer_cycle"
       /\ ret'.op = "realtime_update" =>
            /\ DpOutputs' = DpOutputs
            /\ ret'.controller_called =>
                  /\ ret'.action.mode =
                        _resolve_controller_mode(_effective_mode, ret'.action.current_grid_w,
                                                 has_power_sensors, deadband_w, _control_mode)
                  /\ ret'.action.dp_schedule_w = _dp_schedule_w]_vars

\* a tick whose control action is published with another mode than the
\* effective mode of the last cycle, which is still stored
C17_Witness ==
    /\ IsControllerTick
    /\ _effective_mode \in {"charging", "discharging"}
    /\ data.optimal_mode # _effective_mode
    /\ data.optimal_power_w # _effective_power
    /\ _dp_schedule_w = _last_result.optimal_power

\* new differs from last by at least 10 % of last
DiffersByTenPercent(last, new) == new # last /\ 10 * Abs(new - last) >= Abs(last)

\* C18: on every price event with a numeric new price, positive, zero or
\* negative: the recorded last price becomes that price; a re-optimization is
\* requested when no price was recorded before or the previous state was
\* unknown / unavailable, and otherwise whenever the new price differs from
\* the previous price by at least 10 %.
C18_PriceChangeRefresh ==
    [][(ret'.op = "price_change" /\ ret'.event.new_state.kind = "numeric") =>
          /\ _last_price' = Some(ret'.event.new_state.price)
          /\ IF ~ret'.event.last_before.some \/ ret'.event.old_state.kind = "unavailable"
             THEN ret'.refresh_requested
             ELSE DiffersByTenPercent(ret'.event.last_before.v, ret'.event.new_state.price)
                      => ret'.refresh_requested]_vars

\* the SoC bin of the current SoC has a neighbouring grid state on both sides
InteriorSocBin ==
    LET idx == _find_nearest_soc_idx(battery_config, opt_input.current_soc_wh)
    IN  n_soc_states(battery_config) >= 3 /\ 0 < idx /\ idx < n_soc_states(battery_config) - 1

\* C19: for an optimizer input whose current SoC bin has a neighbour on both
\* sides, the returned shadow price (V[0][s-1] - V[0][s+1]) / (2 * 0.025 kWh)
\* is >= 0.
C19_ShadowPriceNonNegative ==
    (IsOptimized /\ n_steps(opt_input) > 0 /\ InteriorSocBin) =>
        ret.result.shadow_price.num >= 0

\* list cut to n entries, or extended to n entries by repeating its last one
TruncatedOrPadded(list, n) ==
    [i \in 1..n |-> IF i <= Len(list) THEN list[i] ELSE list[Len(list)]]

\* C20: every forecast vector a cycle hands to the optimizer (feed-in price,
\* PV, consumption, DC PV) has the length n_steps of the price forecast: a
\* longer one is truncated, a shorter one is padded by repeating its last
\* known value.
C20_EqualLengthForecasts ==
    ret.op = "cycle_input" =>
        LET n == Len(ret.args.price_forecast)
            raw == ret.raw.forecast_data
        IN  /\ Len(ret.args.pv_forecast) = n
            /\ Len(ret.args.consumption_forecast) = n
            /\ ret.args.feed_in_forecast.some => Len(ret.args.feed_in_forecast.v) = n
            /\ ret.args.pv_dc_forecast.some => Len(ret.args.pv_dc_forecast.v) = n
            /\ raw.pv_forecast # <<>> =>
                  ret.args.pv_forecast = TruncatedOrPadded(raw.pv_forecast, n)
            /\ raw.consumption_forecast # <<>> =>
                  ret.args.consumption_forecast = TruncatedOrPadded(raw.consumption_forecast, n)
            /\ ret.args.pv_dc_forecast.some =>
                  ret.args.pv_dc_forecast.v = TruncatedOrPadded(raw.pv_dc_forecast, n)


\* C21: for n = min(len(price), len(pv), len(consumption)) > 0 the power and
\* mode schedules have length n, the SoC schedule has length n + 1 and starts
\* at the current SoC passed in, every mode label is the sign of the power of
\* its step (charging iff > 0, discharging iff < 0, idle iff = 0), and
\* optimal_power / optimal_mode are entry 0 of the schedules.
C21_ResultWellFormed ==
    (IsOptimized /\ n_steps(opt_input) > 0) =>
        LET result == ret.result
            n == Min(Len(opt_input.price_forecast),
                     Min(Len(opt_input.pv_forecast), Len(opt_input.consumption_forecast)))
        IN  /\ Len(result.power_schedule) = n
            /\ Len(result.mode_schedule) = n
            /\ Len(result.soc_schedule) = n + 1
            /\ result.soc_schedule[1] = opt_input.current_soc_wh
            /\ \A t \in 1..n :
                  /\ result.mode_schedule[t] = "charging" <=> result.power_schedule[t] > 0
                  /\ result.mode_schedule[t] = "discharging" <=> result.power_schedule[t] < 0
                  /\ result.mode_schedule[t] = "idle" <=> result.power_schedule[t] = 0
            /\ result.optimal_power = result.power_schedule[1]
            /\ result.optimal_mode = result.mode_schedule[1]

\* forecasts of three different lengths and a schedule the oscillation filter
\* changed: a discharge is left with the battery at min_soc, its charge gone
C21_Witness ==
    /\ IsOptimized
    /\ Len(opt_input.price_forecast) < Len(opt_input.consumption_forecast)
    /\ Len(opt_input.consumption_forecast) < Len(opt_input.pv_forecast)
    /\ Len(ret.result.power_schedule) = 2
    /\ ret.result.mode_schedule[1] = "idle"
    /\ ret.result.power_schedule[2] < 0
    /\ ret.result.soc_schedule[2] = battery_config.min_soc_wh


\* C22: with an empty price, PV or consumption forecast the result is the
\* empty/idle one: empty power and mode schedules, soc_schedule = [current
\* SoC], total cost, baseline cost and savings 0, optimal power 0 and optimal
\* mode idle.  A feed-in forecast of None gives the result of passing the
\* buy-price forecast as feed-in forecast, a DC PV forecast of None the
\* result of passing zeros.
C22_EmptyForecastIdleResult ==
    IsOptimized =>
        /\ (\/ Len(opt_input.price_forecast) = 0
            \/ Len(opt_input.pv_forecast) = 0
            \/ Len(opt_input.consumption_forecast) = 0) =>
              /\ ret.result.power_schedule = <<>>
              /\ ret.result.mode_schedule = <<>>
              /\ ret.result.soc_schedule = <<opt_input.current_soc_wh>>
              /\ ret.result.total_cost = 0
              /\ ret.result.baseline_cost = 0
              /\ ret.result.savings = 0
              /\ ret.result.optimal_power = 0
              /\ ret.result.optimal_mode = "idle"
        /\ ~opt_input.feed_in_forecast.some =>
              ret.result = optimize_battery_schedule(
                  [opt_input EXCEPT !.feed_in_forecast = Some(opt_input.price_forecast)])
        /\ ~opt_input.pv_dc_forecast.some =>
              ret.result = optimize_battery_schedule(
                  [opt_input EXCEPT !.pv_dc_forecast =
                      Some([i \in 1..Len(opt_input.pv_forecast) |-> 0])])

\* a call with prices and consumption but an empty PV forecast, no feed-in
\* and no DC PV forecast, at a current SoC other than 0
C22_Witness ==
    /\ IsOptimized
    /\ Len(opt_input.price_forecast) > 0
    /\ Len(opt_input.consumption_forecast) > 0
    /\ Len(opt_input.pv_forecast) = 0
    /\ ~opt_input.feed_in_forecast.some
    /\ ~opt_input.pv_dc_forecast.some
    /\ opt_input.current_soc_wh > 0
    /\ ret.result.soc_schedule = <<opt_input.current_soc_wh>>
    /\ ret.result.optimal_mode = "idle"


\* the last entry of the feed-in forecast the optimizer works with
FinalFeedInPrice ==
    LET feed_in == IF opt_input.feed_in_forecast.some THEN opt_input.feed_in_forecast.v
                   ELSE opt_input.price_forecast
    IN  IF Len(feed_in) > 0 THEN feed_in[Len(feed_in)] ELSE 0

\* C23: with the current SoC in [min_soc, max_soc] and a non-negative final
\* feed-in price, savings = baseline_cost - total_cost is never negative.
C23_SavingsNonNegative ==
    (/\ IsOptimized
     /\ battery_config.min_soc_wh <= opt_input.current_soc_wh
     /\ opt_input.current_soc_wh <= battery_config.max_soc_wh
     /\ FinalFeedInPrice >= 0) =>
        /\ ret.result.savings >= 0
        /\ ret.result.savings = ret.result.baseline_cost - ret.result.total_cost

\* a negative feed-in price in an earlier step, a non-negative final one, and
\* a plan that beats doing nothing
C23_Witness ==
    /\ IsOptimized
    /\ battery_config.min_soc_wh <= opt_input.current_soc_wh
    /\ opt_input.current_soc_wh <= battery_config.max_soc_wh
    /\ opt_input.feed_in_forecast.some
    /\ opt_input.feed_in_forecast.v[1] < 0
    /\ FinalFeedInPrice >= 0
    /\ ret.result.savings > 0
    /\ \E t \in 1..Len(ret.result.power_schedule) : ret.result.power_schedule[t] # 0


\* a constant buy price, no feed-in forecast (so feed-in = buy price), no PV,
\* a positive degradation cost and the battery at min_soc
FlatPriceCase ==
    /\ IsOptimized
    /\ n_steps(opt_input) > 0
    /\ \A t \in 1..Len(opt_input.price_forecast) :
          opt_input.price_forecast[t] = opt_input.price_forecast[1]
    /\ ~opt_input.feed_in_forecast.some
    /\ \A t \in 1..Len(opt_input.pv_forecast) : opt_input.pv_forecast[t] = 0
    /\ ~opt_input.pv_dc_forecast.some
    /\ opt_input.degradation_cost_per_kwh > 0
    /\ opt_input.current_soc_wh = battery_config.min_soc_wh

UnprofitablePair(power, i, j) ==
    /\ i < j
    /\ j <= i + 7
    /\ j <= Len(power)
    /\ \/ power[i] > 0 /\ power[j] < 0 /\ BelowThreshold(i, j)
       \/ power[i] < 0 /\ power[j] > 0 /\ BelowThreshold(j, i)

\* C25: the oscillation filter keeps the length of the schedule and the power
\* of every step it does not replace by idle / 0; it replaces step i only if
\* a step of the opposite sign among the following 7 forms an unprofitable
\* pair with it; a schedule without such a pair is returned unchanged.
C25_FilterOnlyZeroes ==
    (IsOptimized /\ n_steps(opt_input) > 0) =>
        LET before == UnfilteredPower
            after == ret.result.power_schedule
        IN  /\ Len(after) = Len(before)
            /\ \A i \in 1..Len(before) :
                  /\ after[i] = before[i] \/ (after[i] = 0 /\ ret.result.mode_schedule[i] = "idle")
                  /\ after[i] # before[i] =>
                        \E j \in 1..Len(before) : UnprofitablePair(before, i, j)
            /\ (\A i, j \in 1..Len(before) : ~UnprofitablePair(before, i, j)) => after = before

\* the filter replaced some steps, and kept a step whose unprofitable partner
\* is eight steps away, out of the lookahead's reach
C25_Witness ==
    /\ IsOptimized
    /\ Len(ret.result.power_schedule) = 9
    /\ \E k \in 1..9 : UnfilteredPower[k] # 0 /\ ret.result.power_schedule[k] = 0
    /\ ret.result.power_schedule[1] = UnfilteredPower[1]
    /\ \/ /\ ret.result.power_schedule[1] > 0
          /\ UnfilteredPower[9] < 0
          /\ BelowThreshold(1, 9)
       \/ /\ ret.result.power_schedule[1] < 0
          /\ UnfilteredPower[9] > 0
          /\ BelowThreshold(9, 1)


\* the call recorded in ret is one on a degenerate numeric input: a battery
\* of zero capacity, a zero duration, or a zero-length forecast
DegenerateCall ==
    /\ ret.op \in {"calculate_efficiency", "calculate_new_soc", "calculate_max_charge_power",
                   "calculate_max_discharge_power", "get_control_action_outcome",
                   "optimize_degenerate"}
    /\ \/ battery_config.capacity_wh = 0
       \/ ret.op \in {"calculate_new_soc", "calculate_max_charge_power",
                      "calculate_max_discharge_power"} /\ ret.duration_minutes = 0
       \/ ret.op = "optimize_degenerate" /\ n_steps(ret.p) = 0

\* C26: no core operation raises on a degenerate numeric input; the maximum
\* charge / discharge power of a zero-capacity battery or over a zero
\* duration is 0, and the optimizer returns the empty/idle result for a
\* zero-length forecast.
C26_NoRaiseOnDegenerateInput ==
    DegenerateCall =>
        /\ ret.outcome.raised = "none"
        /\ ret.op \in {"calculate_max_charge_power", "calculate_max_discharge_power"} =>
              ret.outcome.value = Whole(0)
        /\ (ret.op = "optimize_degenerate" /\ n_steps(ret.p) = 0) =>
              /\ ret.outcome.value.power_schedule = <<>>
              /\ ret.outcome.value.optimal_power = 0
              /\ ret.outcome.value.optimal_mode = "idle"


\* C27: calculate_new_soc with a current SoC in [0, capacity], any power and
\* a duration >= 0 returns an SoC in [min_soc, max_soc]; a charging call never
\* returns an SoC below the current one, a discharging call never one above
\* it, and power 0 returns the current SoC with zero energy.
C27_NewSocClamped ==
    (/\ ret.op = "calculate_new_soc"
     /\ 0 <= ret.current_soc_wh
     /\ ret.current_soc_wh <= battery_config.capacity_wh
     /\ ret.duration_minutes >= 0
     /\ ret.outcome.raised = "none") =>
        LET new_soc == ret.outcome.value.new_soc
            current == Whole(ret.current_soc_wh)
        IN  /\ ~FracLess(new_soc, Whole(battery_config.min_soc_wh))
            /\ ~FracLess(Whole(battery_config.max_soc_wh), new_soc)
            /\ ret.power_w > 0 => ~FracLess(new_soc, current)
            /\ ret.power_w < 0 => ~FracLess(current, new_soc)
            /\ ret.power_w = 0 => new_soc = current /\ ret.outcome.value.actual_energy = Whole(0)


\* C28: in every get_control_action call the published target_power_w, the
\* value after the deadband, is not negative when the SoC of the call is at or
\* below min_soc and not positive when it is at or above max_soc.
C28_PublishedTargetRespectsSoc ==
    IsControlAction =>
        /\ ret.action.soc_wh <= battery_config.min_soc_wh => ret.action.target_power_w >= 0
        /\ ret.action.soc_wh >= battery_config.max_soc_wh => ret.action.target_power_w <= 0


\* a handler call that ran get_control_action in zero_grid mode on a reading
\* of the grid sensor
ZeroGridCall(call) ==
    /\ \/ call.op = "optimizer_cycle"
       \/ call.op = "realtime_update" /\ call.controller_called
    /\ call.action.mode = "zero_grid"
    /\ call.inputs.grid_sensor.available

\* C29: when two handlers (optimizer cycles, real-time ticks) run back to back
\* in zero_grid mode on the same unchanged reading of the grid sensor, the
\* second does not integrate the reading again: with the SoC strictly inside
\* its window, so that no SoC limit moves the target, the target stays where
\* the first call put it.
C29_ReadingIntegratedOnce ==
    [][(/\ ZeroGridCall(ret)
        /\ ZeroGridCall(ret')
        /\ ret'.inputs.grid_sensor = ret.inputs.grid_sensor
        /\ ret'.action.soc_wh > battery_config.min_soc_wh
        /\ ret'.action.soc_wh < battery_config.max_soc_wh)
       => ret'.action.target_power_w = ret.action.target_power_w]_vars


\* the battery can cover the net load: compensating it needs no more than the
\* rated charge or discharge power
LoadWithinRated ==
    /\ -ret.load_w >= -battery_config.max_discharge_w
    /\ -ret.load_w <= battery_config.max_charge_w

\* the grid reading the next closed-loop call will see
NextGridReading == ret.load_w + _last_target_w

\* C30: in the closed loop with a net load within rated power and the SoC
\* strictly inside its window, after every get_control_action call, the first
\* included, the grid reading is smaller than deadband_w in magnitude, and
\* exactly 0 if the call accepted its new target; from the second call on the
\* target is the one of the call before.
C30_ClosedLoopSettles ==
    (LoopClosed /\ LoadWithinRated) =>
        /\ Abs(NextGridReading) < deadband_w
        /\ Abs(ret.action.raw_target_w - ret.last_before) >= deadband_w => NextGridReading = 0
        /\ ~ret.first => ret.action.target_power_w = ret.last_before

\* C30 (amended): as C30, with the grid reading after every call 0 or smaller
\* than deadband_w in magnitude, so that a deadband of 0 is covered.
C30_ClosedLoopSettlesOrZero ==
    (LoopClosed /\ LoadWithinRated) =>
        /\ NextGridReading = 0 \/ Abs(NextGridReading) < deadband_w
        /\ Abs(ret.action.raw_target_w - ret.last_before) >= deadband_w => NextGridReading = 0
        /\ ~ret.first => ret.action.target_power_w = ret.last_before

\* a later call of a loop that closed on a target the controller had to move:
\* the target compensates the load and the grid reading is 0
C30_Witness ==
    /\ LoopClosed
    /\ LoadWithinRated
    /\ ~ret.first
    /\ ret.load_w # 0
    /\ ret.action.target_power_w = -ret.load_w
    /\ ret.action.current_grid_w = 0


\* a handler call that resolved the controller mode and ran get_control_action
ControllerCalled(call) ==
    \/ call.op = "optimizer_cycle"
    \/ call.op = "realtime_update" /\ call.controller_called

\* C31: with power sensors and the effective mode idle on two evaluations in a
\* row, a grid reading in [0, deadband_w) on the second leaves the controller
\* mode what the first evaluation used (idle or zero_grid): hysteresis.
C31_IdleUpgradeHysteresis ==
    [][(/\ has_power_sensors
        /\ ControllerCalled(ret)
        /\ ControllerCalled(ret')
        /\ _effective_mode = "idle"
        /\ _effective_mode' = "idle"
        /\ ret'.action.current_grid_w >= 0
        /\ ret'.action.current_grid_w < deadband_w)
       => ret'.action.mode = ret.action.mode]_vars


\* the SoC a grid state of the DP moves to under an action
PolicyTarget(p, s_idx, action_w) ==
    soc_states(p.cfg, s_idx) + (action_w * p.time_step_minutes) \div 60

\* C33: every state of the SoC grid of the DP lies in [min_soc_wh, max_soc_wh],
\* and for every step and grid state the stored policy action leads to a SoC
\* in [min_soc_wh, max_soc_wh].
C33_DpStaysInWindow ==
    (IsOptimized /\ n_steps(opt_input) > 0) =>
        LET policy == Backward(opt_input, 0).policy
        IN  \A s_idx \in 0..(n_soc_states(battery_config) - 1) :
                /\ battery_config.min_soc_wh <= soc_states(battery_config, s_idx)
                /\ soc_states(battery_config, s_idx) <= battery_config.max_soc_wh
                /\ \A t \in 1..n_steps(opt_input) :
                      /\ battery_config.min_soc_wh <= PolicyTarget(opt_input, s_idx, policy[t][s_idx + 1])
                      /\ PolicyTarget(opt_input, s_idx, policy[t][s_idx + 1]) <= battery_config.max_soc_wh


\* the actions that keep the SoC of a grid state within [min_soc_wh, max_soc_wh]
InBoundsActions(p, s_idx) ==
    {action_w \in actions(p.cfg) :
        /\ p.cfg.min_soc_wh <= PolicyTarget(p, s_idx, action_w)
        /\ PolicyTarget(p, s_idx, action_w) <= p.cfg.max_soc_wh}

\* step_cost(t, s, a) + V[t + 1][nearest_bin(s + a * dt)]
CostToGo(p, t, Vnext, s_idx, action_w) ==
    StepCostAt(p, t, action_w)
        + Vnext[_find_nearest_soc_idx(p.cfg, PolicyTarget(p, s_idx, action_w)) + 1]

\* the Bellman equation of step t: V[t][s] is the least cost-to-go over the
\* actions that keep the SoC within bounds, and policy[t][s] is such an action
\* and attains it
BellmanAt(p, t) ==
    LET cur == Backward(p, t)
        Vnext == Backward(p, t + 1).V
    IN  \A s_idx \in 0..(n_soc_states(p.cfg) - 1) :
            /\ cur.policy[1][s_idx + 1] \in InBoundsActions(p, s_idx)
            /\ cur.V[s_idx + 1] = CostToGo(p, t, Vnext, s_idx, cur.policy[1][s_idx + 1])
            /\ \A action_w \in InBoundsActions(p, s_idx) :
                  cur.V[s_idx + 1] <= CostToGo(p, t, Vnext, s_idx, action_w)

\* V[n_steps][s] = -(s - min_soc) kWh * last feed-in price, in cost units
TerminalAt(p) ==
    \A s_idx \in 0..(n_soc_states(p.cfg) - 1) :
        Backward(p, n_steps(p)).V[s_idx + 1]
            = -((soc_states(p.cfg, s_idx) - p.cfg.min_soc_wh) * 4 * PowerScale(p.cfg)
                    * FinalFeedInPrice)

\* C32: the value function of the DP has the terminal value of the stored
\* energy at n_steps, satisfies the Bellman equation over the actions that keep
\* the SoC within bounds at every step and grid state, with the policy
\* attaining the minimum, and total_cost is V[0] of the start bin.
C32_DpOptimal ==
    (IsOptimized /\ n_steps(opt_input) > 0) =>
        /\ TerminalAt(opt_input)
        /\ \A t \in 0..(n_steps(opt_input) - 1) : BellmanAt(opt_input, t)
        /\ ret.result.total_cost
              = Backward(opt_input, 0).V[_find_nearest_soc_idx(battery_config,
                                                               opt_input.current_soc_wh) + 1]


\* the step is an optimizer cycle that went down the normal path: it ran the
\* optimizer or failed on its inputs
NormalCycleStep == ret'.op \in {"optimizer_cycle", "update_failed"}

\* C34: while the 'Optimization Enabled' switch is off and an optimization
\* result exists, no step runs the optimizer.
C34_SwitchOffStopsOptimizer ==
    [][(~_is_on /\ _last_result # None) => ret'.op # "optimizer_cycle"]_vars

\* C35: an optimizer cycle that starts with the optimization_enabled flag false
\* and published data returns that data and changes nothing else; with the flag
\* false and no data yet it goes down the normal path.
C35_DisabledCycleReturnsCache ==
    [][/\ (~_optimization_enabled /\ data # None /\ ret'.op = "cached_data") =>
             /\ ret'.returned = data
             /\ UNCHANGED <<data, _last_target_w, _last_result, _effective_mode, _effective_power,
                            _dp_schedule_w, _last_failure_reason, steps_elapsed>>
       /\ (~_optimization_enabled /\ data # None) => ~NormalCycleStep
       /\ (~_optimization_enabled /\ data = None) => ret'.op # "cached_data"]_vars

\* a disabled cycle has returned the cached data of a cycle whose control
\* action set a target
C35_Witness ==
    /\ ret.op = "cached_data"
    /\ ~_optimization_enabled
    /\ data # None
    /\ ret.returned = data
    /\ _last_target_w # 0
    /\ _last_result # None


\* a get_control_action call in idle or manual mode
IdleOrManualCall(call) ==
    /\ call.op = "get_control_action"
    /\ call.action.mode \in {"idle", "manual"}

\* the published target of an idle / manual call is 0 or the retained previous
\* target, which was within deadband_w of 0
ZeroOrRetained(call) ==
    \/ call.action.target_power_w = 0
    \/ /\ call.action.target_power_w = call.last_before
       /\ Abs(call.last_before) < deadband_w

\* C36: after a get_control_action call in idle or manual mode the published
\* target is 0 or the retained previous target, its magnitude is below
\* deadband_w, and a further idle / manual call leaves it unchanged.
C36_IdleTargetBelowDeadband ==
    [][IdleOrManualCall(ret') =>
          /\ ZeroOrRetained(ret')
          /\ Abs(ret'.action.target_power_w) < deadband_w
          /\ IdleOrManualCall(ret) => ret'.action.target_power_w = ret.action.target_power_w]_vars

\* C36 (amended): as C36, with the published target 0 or of magnitude below
\* deadband_w, so that a deadband of 0 is covered.
C36_IdleTargetZeroOrBelowDeadband ==
    [][IdleOrManualCall(ret') =>
          /\ ZeroOrRetained(ret')
          /\ ret'.action.target_power_w = 0 \/ Abs(ret'.action.target_power_w) < deadband_w
          /\ IdleOrManualCall(ret) => ret'.action.target_power_w = ret.action.target_power_w]_vars

\* an idle or manual call that retained a nonzero previous target while the
\* DP schedule asked for power
C36_Witness ==
    /\ IdleOrManualCall(ret)
    /\ ret.action.target_power_w # 0
    /\ ret.action.target_power_w = ret.last_before
    /\ ret.action.raw_target_w = 0
    /\ ret.action.dp_schedule_w # 0


\* the sum of step_cost over the steps t .. of a power schedule (t is 1-based)
RECURSIVE ScheduleCost(_, _, _)
ScheduleCost(p, power_schedule, t) ==
    IF t > Len(power_schedule) THEN 0
    ELSE StepCostAt(p, t - 1, power_schedule[t]) + ScheduleCost(p, power_schedule, t + 1)

\* the terminal value of a final SoC: the energy above min_soc at the last
\* feed-in price, in cost units
TerminalValueOf(p, soc_wh) ==
    -((soc_wh - p.cfg.min_soc_wh) * 4 * PowerScale(p.cfg) * FinalFeedInPrice)

\* C37: total_cost of the result is the cost of the returned schedule: the sum
\* of step_cost over the returned power_schedule plus the terminal value of the
\* returned final SoC.
C37_TotalCostOfReturnedSchedule ==
    (IsOptimized /\ n_steps(opt_input) > 0) =>
        ret.result.total_cost
            = ScheduleCost(opt_input, ret.result.power_schedule, 1)
              + TerminalValueOf(opt_input,
                                ret.result.soc_schedule[Len(ret.result.soc_schedule)])


\* a price sensor that exposes only the hourly today / tomorrow lists
OnlyTodayTomorrow(state) ==
    /\ ~state.forecast_prices.some
    /\ ~state.forecast.some
    /\ ~state.raw_today.some
    /\ ~state.raw_tomorrow.some
    /\ state.today.some

\* C39: for a price sensor with only the hourly today / tomorrow lists,
\* extract_price_forecast_with_interval returns the prices of today[hour:]
\* followed by those of tomorrow, with interval 60.
C39_TodaySkipsPastHours ==
    (/\ ret.op = "extract_price_forecast_with_interval"
     /\ OnlyTodayTomorrow(ret.state)) =>
        /\ ret.out.prices
              = NormalizedPrices(FromHour(ret.state.today.v, ret.hour))
                \o NormalizedPrices(ListAttribute(ret.state.tomorrow))
        /\ ret.out.interval = 60


\* the lists of the published forecast data
PublishedForecastLists(published) ==
    <<published.pv_forecast, published.consumption_forecast, published.pv_dc_forecast>>

\* C38: an optimizer cycle leaves the forecast coordinator's published lists
\* (PV, consumption, DC PV) and the extracted price lists as they were, for
\* every optimizer time step; padding is applied to copies only.
C38_CycleLeavesInputsUnchanged ==
    [][ret'.op = "resample_and_pad" =>
          /\ PublishedForecastLists(forecast_coordinator_data')
                = PublishedForecastLists(forecast_coordinator_data)
          /\ ret'.price_forecast_after = ret'.price_forecast_before
          /\ ret'.feed_in_forecast_after = ret'.feed_in_forecast_before]_vars

====
